---- MODULE Spec2Model ----
(***************************************************************************)
(* Model of the unified streaming chat abstraction of WeKnora, of its      *)
(* event bus and of its authentication middleware:                         *)
(*   internal/models/chat/remote_api.go  (RemoteAPIChat)                   *)
(*   internal/models/chat/ollama.go      (OllamaChat, src/unnamed/part_002)*)
(*   internal/event/event.go             (EventBus)                        *)
(*   internal/middleware/auth.go         (Auth, src/unnamed/part_000)      *)
(*                                                                         *)
(* Spec        the streaming calls: one ChatStream call, its worker        *)
(*             goroutine, the transport and a consumer that receives.      *)
(* SpecCancel  the same with a consumer that may stop and a context that   *)
(*             may be cancelled.                                           *)
(* SpecOrder   the same, observing the order of the contents.              *)
(* SpecPair    two concurrent ChatStream calls on one RemoteAPIChat.       *)
(* SpecFragments  one call whose fragments differ in index, id and type.   *)
(* SpecChat    the non-streaming calls.                                    *)
(* SpecOllama  the calls of the local adapter, streaming and not.          *)
(* SpecBuild   NewChat and the requests the two adapters build.            *)
(* SpecBus     an event bus, the calls that change its registry and two    *)
(*             emissions with their handlers.                              *)
(* SpecAuth    one request through the Auth middleware.                    *)
(***************************************************************************)
EXTENDS Naturals, Integers, Sequences, FiniteSets, TLC

VARIABLES
    \* ---- streaming call ----
    adapter,           \* which ChatStream was called: "none", "remote", "ollama"
    preErr,            \* the step before the stream (create, ensure model) failed
    ret,               \* what ChatStream returned to the caller: channel and error
    runtimeOps,        \* the operations ChatStream and its worker have invoked on ollamaService
    pc,                \* position of the worker goroutine
    chunk,             \* the worker's locals that outlive a send: isDone, toolCallIndex
    toolCallMap,       \* remote_api.go:371
    lastFunctionName,  \* remote_api.go:372
    nameNotified,      \* remote_api.go:373
    out,               \* the event the worker is blocked sending on streamChan
    consumer,          \* "receiving" or "stopped"
    cancelled,         \* the caller's context has been cancelled
    \* ---- observations of the streaming call (history, not program state) ----
    doneCount,         \* number of events with Done = TRUE the consumer has received
    last,              \* ResponseType and Done of the last event it received
    notifs,            \* per index, number of tool_call events sent
    announced,         \* per index, the Data of the tool_call event sent for it
    catName,           \* per index, name fragments concatenated in arrival order
    catArgs,           \* per index, arguments fragments concatenated in arrival order
    nDeltas,           \* number of tool-call deltas the transport has produced
    firstIndex,        \* index of the first of them (NoIndex before it)
    nFinish,           \* number of responses in which the provider signalled completion
    watch,             \* what a run observes: "calls" the fragments, "order" the contents
    produced,          \* the non-empty contents the transport has produced, in order
    received,          \* the non-empty contents of the answer events received, in order
    nInvocations,      \* number of times the local runtime has invoked the callback
    \* ---- non-streaming call ----
    chatCall,          \* which Chat was called: "none", "remote", "qwen", "ollama"
    chatPc,            \* "idle", "callbacks" (inside ollamaService.Chat), "returned"
    chatIn,            \* what the provider or the local runtime did
    chatLocals,        \* ollama.go:82-83: responseContent, promptTokens, completionTokens
    chatRes,           \* what Chat returned: response and error
    chatOps,           \* the operations Chat has invoked on ollamaService
    \* ---- two concurrent ChatStream calls on one RemoteAPIChat ----
    pairPc,            \* per call, position of its worker: "none", "recv", "closed"
    pairLocals,        \* per worker, its toolCallMap, lastFunctionName, nameNotified
    pairDeltas,        \* per call, the tool-call deltas its transport has produced
    pairEvents,        \* per call, the events its worker has sent on its channel
    \* ---- construction and request building ----
    reqCfg,            \* the adapter's modelName and baseURL
    reqOpts,           \* the caller's *ChatOptions
    reqMsgs,           \* the caller's []Message
    reqOut,            \* the call made, the route it took and the request it built
    newChatIn,         \* config.Source given to NewChat, and what the container provides
    newChatOut,        \* what NewChat returned: the adapter and the error
    \* ---- EventBus ----
    busMode,           \* "none" before the constructor, then "sync" or "async" (asyncMode)
    busHandlers,       \* eb.handlers: per event type, the handlers in the slice
    busReaders,        \* the emissions that hold the read lock of eb.mu
    emission,          \* per emitter, its Emit or EmitAndWait: the handlers read, their progress
    nOn,               \* number of calls of On; the n-th call registers handler n
    typeOf,            \* per handler, the event type it was registered for
    live,              \* the handlers registered and not removed since
    \* ---- Auth middleware ----
    authIn,            \* the request, the configuration and what the services answer
    authOut            \* what Auth did: next handler or abort, the response, the context

callVars == <<adapter, preErr, ret, runtimeOps>>
accVars == <<toolCallMap, lastFunctionName, nameNotified>>
envVars == <<consumer, cancelled>>
seenVars == <<doneCount, last>>
fragVars == <<notifs, announced, catName, catArgs, nDeltas, firstIndex>>
orderVars == <<watch, produced, received, nInvocations>>
streamVars == <<callVars, pc, chunk, accVars, out, envVars, seenVars, fragVars, nFinish, orderVars>>
chatVars == <<chatCall, chatPc, chatIn, chatLocals, chatRes, chatOps>>
pairVars == <<pairPc, pairLocals, pairDeltas, pairEvents>>
reqVars == <<reqCfg, reqOpts, reqMsgs, reqOut>>
newChatVars == <<newChatIn, newChatOut>>
buildVars == <<reqVars, newChatVars>>
registryVars == <<busHandlers, nOn, typeOf, live>>
busVars == <<busMode, registryVars, busReaders, emission>>
chatModelVars == <<streamVars, chatVars, pairVars, buildVars>>
authVars == <<authIn, authOut>>
nonStreamVars == <<chatVars, pairVars, buildVars, busVars, authVars>>
nonChatVars == <<streamVars, pairVars, buildVars, busVars, authVars>>
nonPairVars == <<streamVars, chatVars, buildVars, busVars, authVars>>
nonBuildVars == <<streamVars, chatVars, pairVars, busVars, authVars>>
nonBusVars == <<chatModelVars, authVars>>
nonAuthVars == <<chatModelVars, busVars>>
vars == <<chatModelVars, busVars, authVars>>

(***************************************************************************)
(* Bounds and input alphabets                                              *)
(***************************************************************************)
\* total number of tool-call deltas the transport delivers in one stream
MaxDeltas == 3
\* number of responses in which the provider signals completion (a finish
\* reason of the remote provider, done of the local runtime)
MaxFinish == 1

\* number of responses with content in a run that observes the contents
MaxContents == 2

\* number of times the local runtime invokes the callback of one call
MaxCallbacks == 2

\* tool-call indices the provider uses; NoIndex is a delta without index
Indices == {0, 1}
NoIndex == -1
Ids == {"", "c1"}
Names == {"", "a", "b"}
Args == {"", "x"}
Contents == {"", "h"}
FinishReasons == {"", "stop"}

\* openai.ToolCall as it arrives in a stream delta
Delta(index, id, type, name, args) ==
    [Index |-> index, ID |-> id, Type |-> type, Name |-> name, Arguments |-> args]

\* The deltas the provider sends: every combination of an index, an id (sent
\* together with the type), a name fragment and an arguments fragment, and the
\* fragments that carry one field only: a second id, other arguments.
Deltas ==
    {Delta(d[1], d[2], IF d[2] # "" THEN "function" ELSE "", d[3], d[4]) :
        d \in (Indices \cup {NoIndex}) \X Ids \X Names \X Args}
    \cup {Delta(i, "c2", "", "", "") : i \in Indices}
    \cup {Delta(i, "", "", "", "y") : i \in Indices}

\* A run that observes the order of the contents tells them apart and draws
\* the tool calls from the fragments of one call, its id and name, then its
\* arguments, and the first fragment of a second call.
OrderContents == {"", "h", "i"}
OrderDeltas ==
    {Delta(0, "c1", "function", "a", ""), Delta(0, "", "", "", "x"),
     Delta(1, "c2", "function", "b", "")}
ContentsOf(w) == IF w = "order" THEN OrderContents ELSE Contents
DeltasOf(w) == IF w = "order" THEN OrderDeltas ELSE Deltas

\* the transport can produce this content in this run
CanProduce(content) ==
    (watch = "order" /\ content # "") => Len(produced) < MaxContents

\* the contents produced, with this one
Produce(content) ==
    IF watch = "order" /\ content # "" THEN Append(produced, content) ELSE produced

(***************************************************************************)
(* Values                                                                  *)
(***************************************************************************)
\* a key that is not in toolCallMap
NoEntry == [present |-> FALSE, ID |-> "", Type |-> "", Name |-> "", Arguments |-> ""]

\* no response is being processed
NoChunk == [isDone |-> FALSE, toolCallIndex |-> 0]

\* StreamResponse.Data of an event that carries none
NoData == [tool_name |-> "", tool_call_id |-> ""]

\* types.StreamResponse; indices is an observation: the map keys the entries
\* of ToolCalls were read from (tool_call events: the key the event is about)
StreamResponse(type, content, done, toolCalls, data, indices) ==
    [ResponseType |-> type, Content |-> content, Done |-> done,
     ToolCalls |-> toolCalls, Data |-> data, indices |-> indices]

\* the consumer has received nothing yet
NoLast == [ResponseType |-> "none", Done |-> FALSE]

(***************************************************************************)
(* buildOrderedToolCalls, remote_api.go:375-389                            *)
(***************************************************************************)
\* len(toolCallMap)
MapLen(m) == Cardinality({i \in Indices : m[i].present})

\* the value copy *tc appended to result
ToolCallOf(e) == [ID |-> e.ID, Type |-> e.Type, Name |-> e.Name, Arguments |-> e.Arguments]

\* the keys visited by "for i := 0; i < len(toolCallMap); i++" that are present
RECURSIVE OrderedFrom(_, _, _)
OrderedFrom(i, n, m) ==
    IF i >= n THEN <<>>
    ELSE (IF i \in Indices /\ m[i].present THEN <<i>> ELSE <<>>) \o OrderedFrom(i + 1, n, m)

\* faulty variant: the loop runs from the last key down
RECURSIVE OrderedDownFrom(_, _)
OrderedDownFrom(i, m) ==
    IF i < 0 THEN <<>>
    ELSE (IF i \in Indices /\ m[i].present THEN <<i>> ELSE <<>>) \o OrderedDownFrom(i - 1, m)

buildOrderedIndicesDown(m) == OrderedDownFrom(MapLen(m) - 1, m)

buildOrderedIndices(m) == OrderedFrom(0, MapLen(m), m)

buildOrderedToolCalls(m) ==
    LET ix == buildOrderedIndices(m)
    IN  [j \in 1..Len(ix) |-> ToolCallOf(m[ix[j]])]

(***************************************************************************)
(* The tool-call accumulator, remote_api.go:410-466                        *)
(***************************************************************************)
\* remote_api.go:412-415
ToolCallIndex(tc) == IF tc.Index # NoIndex THEN tc.Index ELSE 0

\* remote_api.go:416-426: look the entry up, or create it
LookupOrCreate(m, i, tc) ==
    IF m[i].present THEN m[i]
    ELSE [present |-> TRUE, ID |-> "", Type |-> tc.Type, Name |-> "", Arguments |-> ""]

\* faulty variant: the first id and the first type are kept
AccumulateFirstWins(e, tc) ==
    [present   |-> TRUE,
     ID        |-> IF e.ID = "" THEN tc.ID ELSE e.ID,
     Type      |-> IF e.Type = "" THEN tc.Type ELSE e.Type,
     Name      |-> IF tc.Name # "" THEN e.Name \o tc.Name ELSE e.Name,
     Arguments |-> IF tc.Arguments # "" THEN e.Arguments \o tc.Arguments ELSE e.Arguments]

\* remote_api.go:428-446: id and type overwrite, name and arguments append
Accumulate(e, tc) ==
    [present   |-> TRUE,
     ID        |-> IF tc.ID # "" THEN tc.ID ELSE e.ID,
     Type      |-> IF tc.Type # "" THEN tc.Type ELSE e.Type,
     Name      |-> IF tc.Name # "" THEN e.Name \o tc.Name ELSE e.Name,
     Arguments |-> IF tc.Arguments # "" THEN e.Arguments \o tc.Arguments ELSE e.Arguments]

\* faulty variant: the nameNotified check is missing
ShouldNotifyAgain(currName, lastName, argsUpdated, notified, id) ==
    /\ currName # ""
    /\ currName = lastName
    /\ argsUpdated
    /\ id # ""

\* faulty variant: the id check is missing
ShouldNotifyWithoutId(currName, lastName, argsUpdated, notified, id) ==
    /\ currName # ""
    /\ currName = lastName
    /\ argsUpdated
    /\ ~notified

\* remote_api.go:449-453
ShouldNotify(currName, lastName, argsUpdated, notified, id) ==
    /\ currName # ""
    /\ currName = lastName
    /\ argsUpdated
    /\ ~notified
    /\ id # ""

\* remote_api.go:454-462
ToolCallEvent(currName, id, i) ==
    StreamResponse("tool_call", "", FALSE, <<>>,
                   [tool_name |-> currName, tool_call_id |-> id], <<i>>)

\* faulty variant: the content is sent together with the content before it
ContentEventCoalesced(content, isDone, m) ==
    StreamResponse("answer",
                   (IF received # <<>> THEN received[Len(received)] ELSE "") \o content,
                   isDone, buildOrderedToolCalls(m), NoData, buildOrderedIndices(m))

\* remote_api.go:472-477
ContentEvent(content, isDone, m) ==
    StreamResponse("answer", content, isDone, buildOrderedToolCalls(m), NoData,
                   buildOrderedIndices(m))

\* remote_api.go:395-400 and 482-487
FinalEvent(m) ==
    StreamResponse("answer", "", TRUE, buildOrderedToolCalls(m), NoData,
                   buildOrderedIndices(m))

\* ollama.go:134-138
OllamaContentEvent(content) == StreamResponse("answer", content, FALSE, <<>>, NoData, <<>>)

\* ollama.go:142-145 and 152-155
OllamaDoneEvent == StreamResponse("answer", "", TRUE, <<>>, NoData, <<>>)

(***************************************************************************)
(* ChatStream: the call itself                                             *)
(***************************************************************************)
\* faulty variant: the worker is started before the error of line 361 is looked at
RemoteChatStreamReturnEarlyWorker(createOk) ==
    IF createOk THEN [ch |-> "streamChan", err |-> FALSE, worker |-> TRUE]
    ELSE [ch |-> "nil", err |-> TRUE, worker |-> TRUE]

\* remote_api.go:350-365 and 493: what the call returns, and whether the
\* worker goroutine of line 367 is started
RemoteChatStreamReturn(createOk) ==
    IF createOk THEN [ch |-> "streamChan", err |-> FALSE, worker |-> TRUE]
    ELSE [ch |-> "nil", err |-> TRUE, worker |-> FALSE]

\* ollama.go:74-85, 119-132, 162-166: the operations of ollamaService a call
\* invokes, in order; the chat request is issued only after the model has
\* been ensured
OllamaServiceOps(ensureOk) ==
    IF ensureOk THEN <<"EnsureModelAvailable", "Chat">> ELSE <<"EnsureModelAvailable">>

\* ollama.go:119-129 and 159
OllamaChatStreamReturn(ensureOk) ==
    IF ensureOk THEN [ch |-> "streamChan", err |-> FALSE, worker |-> TRUE]
    ELSE [ch |-> "nil", err |-> TRUE, worker |-> FALSE]

NotCalled == [ch |-> "nil", err |-> FALSE]

InitStream ==
    /\ adapter = "none"
    /\ preErr = FALSE
    /\ ret = NotCalled
    /\ runtimeOps = <<>>
    /\ pc = "none"
    /\ chunk = NoChunk
    /\ toolCallMap = [i \in Indices |-> NoEntry]
    /\ lastFunctionName = [i \in Indices |-> ""]
    /\ nameNotified = [i \in Indices |-> FALSE]
    /\ out = <<>>
    /\ consumer = "receiving"
    /\ cancelled = FALSE
    /\ doneCount = 0
    /\ last = NoLast
    /\ notifs = [i \in Indices |-> 0]
    /\ announced = [i \in Indices |-> NoData]
    /\ catName = [i \in Indices |-> ""]
    /\ catArgs = [i \in Indices |-> ""]
    /\ nDeltas = 0
    /\ firstIndex = NoIndex
    /\ nFinish = 0
    /\ produced = <<>>
    /\ received = <<>>
    /\ nInvocations = 0

\* RemoteAPIChat.ChatStream, remote_api.go:350-365, 493
RemoteChatStream ==
    /\ adapter = "none"
    /\ \E createOk \in BOOLEAN :
          LET r == RemoteChatStreamReturn(createOk)
          IN  /\ preErr' = ~createOk
              /\ ret' = [ch |-> r.ch, err |-> r.err]
              /\ pc' = IF r.worker THEN "recv" ELSE "none"
    /\ adapter' = "remote"
    /\ UNCHANGED runtimeOps
    /\ UNCHANGED <<chunk, accVars, out, envVars, seenVars, fragVars, nFinish>>
    /\ UNCHANGED orderVars
    /\ UNCHANGED nonStreamVars

\* OllamaChat.ChatStream, ollama.go:114-129, 159
OllamaChatStream ==
    /\ adapter = "none"
    /\ \E ensureOk \in BOOLEAN :
          LET r == OllamaChatStreamReturn(ensureOk)
          IN  /\ preErr' = ~ensureOk
              /\ ret' = [ch |-> r.ch, err |-> r.err]
              /\ pc' = IF r.worker THEN "ocall" ELSE "none"
              /\ runtimeOps' = OllamaServiceOps(ensureOk)
    /\ adapter' = "ollama"
    /\ UNCHANGED <<chunk, accVars, out, envVars, seenVars, fragVars, nFinish>>
    /\ UNCHANGED orderVars
    /\ UNCHANGED nonStreamVars

(***************************************************************************)
(* The remote worker, remote_api.go:367-491                                *)
(*                                                                         *)
(* The worker is cut at its blocking points: stream.Recv and the sends on  *)
(* the unbuffered streamChan. The fields of a response are drawn when the  *)
(* code reads them: each tool-call delta when the loop of line 410 reaches *)
(* it, the content and the finish reason when the loop is over.            *)
(***************************************************************************)
\* remote_api.go:392-402: stream.Recv returns an error (EOF, a transport
\* error, the cancelled context): the worker goes to send the final event
RecvError ==
    /\ pc = "recv"
    /\ out' = <<FinalEvent(toolCallMap)>>
    /\ pc' = "sendFinal"
    /\ UNCHANGED <<callVars, chunk, accVars, envVars, seenVars, fragVars, nFinish>>
    /\ UNCHANGED orderVars
    /\ UNCHANGED nonStreamVars

\* remote_api.go:392, 404: stream.Recv returns a response; one with no
\* choices is skipped
RecvChunk ==
    /\ pc = "recv"
    /\ ~cancelled
    /\ \E choices \in BOOLEAN : pc' = IF choices THEN "tc" ELSE "recv"
    /\ UNCHANGED <<callVars, chunk, accVars, out, envVars, seenVars, fragVars, nFinish>>
    /\ UNCHANGED orderVars
    /\ UNCHANGED nonStreamVars

\* remote_api.go:410-466: one iteration of the loop over delta.ToolCalls, up to
\* the send of the notification (line 454) or to the end of the iteration
ProcessToolCall ==
    /\ pc = "tc"
    /\ nDeltas < MaxDeltas
    /\ \E tc \in DeltasOf(watch) :
          LET toolCallIndex == ToolCallIndex(tc)
              toolCallEntry == Accumulate(LookupOrCreate(toolCallMap, toolCallIndex, tc), tc)
              argsUpdated   == tc.Arguments # ""
              currName      == toolCallEntry.Name
          IN  /\ toolCallMap' = [toolCallMap EXCEPT ![toolCallIndex] = toolCallEntry]
              /\ catName' = [catName EXCEPT ![toolCallIndex] = @ \o tc.Name]
              /\ catArgs' = [catArgs EXCEPT ![toolCallIndex] = @ \o tc.Arguments]
              /\ nDeltas' = nDeltas + 1
              /\ firstIndex' = IF nDeltas = 0 THEN toolCallIndex ELSE firstIndex
              /\ IF ShouldNotify(currName, lastFunctionName[toolCallIndex], argsUpdated,
                                 nameNotified[toolCallIndex], toolCallEntry.ID)
                 THEN /\ out' = <<ToolCallEvent(currName, toolCallEntry.ID, toolCallIndex)>>
                      /\ notifs' = [notifs EXCEPT ![toolCallIndex] = @ + 1]
                      /\ announced' = [announced EXCEPT ![toolCallIndex] =
                             [tool_name |-> currName, tool_call_id |-> toolCallEntry.ID]]
                      /\ chunk' = [chunk EXCEPT !.toolCallIndex = toolCallIndex]
                      /\ pc' = "notify"
                      /\ UNCHANGED lastFunctionName
                 ELSE /\ lastFunctionName' = [lastFunctionName EXCEPT ![toolCallIndex] = currName]
                      /\ UNCHANGED <<out, notifs, announced, chunk, pc>>
    /\ UNCHANGED <<callVars, nameNotified, envVars, seenVars, nFinish>>
    /\ UNCHANGED orderVars
    /\ UNCHANGED nonStreamVars

\* faulty variant: the event with all tool calls is sent only when the last
\* response had content
AfterContentOnlyWithContent(isDone) ==
    IF isDone /\ MapLen(toolCallMap) > 0 /\ pc = "sendContent"
    THEN /\ out' = <<FinalEvent(toolCallMap)>>
         /\ pc' = "sendToolDone"
         /\ chunk' = NoChunk
    ELSE /\ out' = <<>>
         /\ pc' = "recv"
         /\ chunk' = NoChunk

\* remote_api.go:480-489: after the content, the event that carries all tool
\* calls when the response is the last one; then back to stream.Recv
AfterContent(isDone) ==
    IF isDone /\ MapLen(toolCallMap) > 0
    THEN /\ out' = <<FinalEvent(toolCallMap)>>
         /\ pc' = "sendToolDone"
         /\ chunk' = NoChunk
    ELSE /\ out' = <<>>
         /\ pc' = "recv"
         /\ chunk' = NoChunk

\* faulty variant: streamChan has a buffer, the send of the content returns
\* at once and the worker goes back to stream.Recv
EndOfToolCallsBuffered ==
    /\ pc = "tc"
    /\ \E content \in ContentsOf(watch), finish \in FinishReasons :
          LET isDone == finish # ""
          IN  /\ isDone => nFinish < MaxFinish
              /\ CanProduce(content)
              /\ produced' = Produce(content)
              /\ nFinish' = nFinish + (IF isDone THEN 1 ELSE 0)
              /\ IF content # ""
                 THEN /\ out' = <<ContentEvent(content, isDone, toolCallMap)>>
                      /\ pc' = "recv"
                      /\ chunk' = NoChunk
                 ELSE AfterContent(isDone)
    /\ UNCHANGED <<callVars, accVars, envVars, seenVars, fragVars>>
    /\ UNCHANGED <<watch, received, nInvocations>>
    /\ UNCHANGED nonStreamVars

\* remote_api.go:406, 470-478: the loop over the tool calls is over (or the
\* response has none); the content is sent when it is not empty
EndOfToolCalls ==
    /\ pc = "tc"
    /\ \E content \in ContentsOf(watch), finish \in FinishReasons :
          LET isDone == finish # ""
          IN  /\ isDone => nFinish < MaxFinish
              /\ CanProduce(content)
              /\ produced' = Produce(content)
              /\ nFinish' = nFinish + (IF isDone THEN 1 ELSE 0)
              /\ IF content # ""
                 THEN /\ out' = <<ContentEvent(content, isDone, toolCallMap)>>
                      /\ pc' = "sendContent"
                      /\ chunk' = [chunk EXCEPT !.isDone = isDone]
                 ELSE AfterContent(isDone)
    /\ UNCHANGED <<callVars, accVars, envVars, seenVars, fragVars>>
    /\ UNCHANGED <<watch, received, nInvocations>>
    /\ UNCHANGED nonStreamVars

\* what the consumer observes when it receives out[1]
Observe ==
    /\ doneCount' = doneCount + (IF out[1].Done THEN 1 ELSE 0)
    /\ last' = [ResponseType |-> out[1].ResponseType, Done |-> out[1].Done]
    /\ received' = IF watch = "order" /\ out[1].ResponseType = "answer" /\ out[1].Content # ""
                   THEN Append(received, out[1].Content)
                   ELSE received

\* The consumer receives the event the remote worker is blocked sending (the
\* channel of line 357 is unbuffered), and the worker runs on to its next
\* blocking point: lines 463-466 after the notification, 480-489 after the
\* content, 392 after the tool-call event, the deferred close of line 368
\* after the final event.
RemoteDeliver ==
    /\ adapter = "remote"
    /\ consumer = "receiving"
    /\ out # <<>>
    /\ Observe
    /\ \/ /\ pc = "notify"
          /\ nameNotified' = [nameNotified EXCEPT ![chunk.toolCallIndex] = TRUE]
          /\ lastFunctionName' = [lastFunctionName EXCEPT
                 ![chunk.toolCallIndex] = toolCallMap[chunk.toolCallIndex].Name]
          /\ chunk' = NoChunk
          /\ out' = <<>>
          /\ pc' = "tc"
       \/ /\ pc = "sendContent"
          /\ AfterContent(chunk.isDone)
          /\ UNCHANGED <<nameNotified, lastFunctionName>>
       \/ /\ pc = "sendToolDone"
          /\ out' = <<>>
          /\ pc' = "recv"
          /\ UNCHANGED <<chunk, nameNotified, lastFunctionName>>
       \/ /\ pc = "sendFinal"
          /\ out' = <<>>
          /\ pc' = "closed"
          /\ UNCHANGED <<chunk, nameNotified, lastFunctionName>>
    /\ UNCHANGED <<callVars, toolCallMap, envVars, fragVars, nFinish>>
    /\ UNCHANGED <<watch, produced, nInvocations>>
    /\ UNCHANGED nonStreamVars

(***************************************************************************)
(* The local worker, ollama.go:129-157                                     *)
(***************************************************************************)
\* ollama.go:132-149: the runtime invokes the callback with one response, up
\* to the first send
OllamaCallback ==
    /\ pc = "ocall"
    /\ ~cancelled
    /\ nInvocations < MaxCallbacks
    /\ nInvocations' = nInvocations + 1
    /\ \E content \in ContentsOf(watch), done \in BOOLEAN :
          /\ done => nFinish < MaxFinish
          /\ CanProduce(content)
          /\ produced' = Produce(content)
          /\ nFinish' = nFinish + (IF done THEN 1 ELSE 0)
          /\ IF content # ""
             THEN /\ out' = <<OllamaContentEvent(content)>>
                  /\ chunk' = [NoChunk EXCEPT !.isDone = done]
                  /\ pc' = "osendContent"
             ELSE IF done
             THEN /\ out' = <<OllamaDoneEvent>>
                  /\ pc' = "osendDone"
                  /\ UNCHANGED chunk
             ELSE UNCHANGED <<out, chunk, pc>>
    /\ UNCHANGED <<callVars, accVars, envVars, seenVars, fragVars>>
    /\ UNCHANGED <<watch, received>>
    /\ UNCHANGED nonStreamVars

\* ollama.go:132, 149-157: ollamaService.Chat returns; with an error the
\* worker sends a done event, then the deferred close of line 130 runs. A
\* cancelled context makes the runtime call return an error.
OllamaReturn ==
    /\ pc = "ocall"
    /\ \E err \in BOOLEAN :
          /\ cancelled => err
          /\ IF err
             THEN /\ out' = <<OllamaDoneEvent>>
                  /\ pc' = "osendErr"
             ELSE /\ out' = <<>>
                  /\ pc' = "closed"
    /\ UNCHANGED <<callVars, chunk, accVars, envVars, seenVars, fragVars, nFinish>>
    /\ UNCHANGED orderVars
    /\ UNCHANGED nonStreamVars

\* The consumer receives the event the local worker is blocked sending (the
\* channel of line 127 is unbuffered); the worker runs on: line 141 after the
\* content, the callback's return after the done event, the deferred close
\* after the error's done event.
OllamaDeliver ==
    /\ adapter = "ollama"
    /\ consumer = "receiving"
    /\ out # <<>>
    /\ Observe
    /\ \/ /\ pc = "osendContent"
          /\ IF chunk.isDone
             THEN /\ out' = <<OllamaDoneEvent>>
                  /\ pc' = "osendDone"
             ELSE /\ out' = <<>>
                  /\ pc' = "ocall"
          /\ chunk' = NoChunk
       \/ /\ pc = "osendDone"
          /\ out' = <<>>
          /\ pc' = "ocall"
          /\ UNCHANGED chunk
       \/ /\ pc = "osendErr"
          /\ out' = <<>>
          /\ pc' = "closed"
          /\ UNCHANGED chunk
    /\ UNCHANGED <<callVars, accVars, envVars, fragVars, nFinish>>
    /\ UNCHANGED <<watch, produced, nInvocations>>
    /\ UNCHANGED nonStreamVars

(***************************************************************************)
(* The environment of the worker                                           *)
(***************************************************************************)
\* the consumer stops receiving from the channel it was given
ConsumerStop ==
    /\ pc # "none"
    /\ consumer = "receiving"
    /\ consumer' = "stopped"
    /\ UNCHANGED <<callVars, pc, chunk, accVars, out, cancelled, seenVars, fragVars, nFinish>>
    /\ UNCHANGED orderVars
    /\ UNCHANGED nonStreamVars

\* the caller cancels the context it gave to ChatStream
Cancel ==
    /\ pc \notin {"none", "closed"}
    /\ ~cancelled
    /\ cancelled' = TRUE
    /\ UNCHANGED <<callVars, pc, chunk, accVars, out, consumer, seenVars, fragVars, nFinish>>
    /\ UNCHANGED orderVars
    /\ UNCHANGED nonStreamVars

(***************************************************************************)
(* The non-streaming calls                                                 *)
(***************************************************************************)
\* number of choices in a provider response
MaxChoices == 2

\* http.StatusOK
StatusOK == 200
Statuses == {StatusOK, 500}

\* openai.ToolCall of a complete message
Call1 == [ID |-> "c1", Type |-> "function", Name |-> "a", Arguments |-> "x"]
Call2 == [ID |-> "c2", Type |-> "function", Name |-> "b", Arguments |-> ""]
ToolCallLists == {<<>>, <<Call1>>, <<Call1, Call2>>, <<Call2, Call1>>}

\* openai.ChatCompletionChoice
Choices ==
    {[Content |-> c, FinishReason |-> IF t = <<>> THEN "stop" ELSE "tool_calls", ToolCalls |-> t] :
        c \in Contents, t \in ToolCallLists}

ChoiceLists == UNION {[1..n -> Choices] : n \in 0..MaxChoices}

\* openai.Usage
Usage(prompt, completion, total) ==
    [PromptTokens |-> prompt, CompletionTokens |-> completion, TotalTokens |-> total]

Usages == {Usage(0, 0, 0), Usage(1, 2, 3)}

\* openai.ChatCompletionResponse
Responses == [Choices : ChoiceLists, Usage : Usages]
NoResponse == [Choices |-> <<>>, Usage |-> Usage(0, 0, 0)]

\* the error of client.CreateChatCompletion: none, or the transport failed,
\* the status was not a success, the body could not be decoded
CreateErrors == {"", "transport", "status", "decode"}

\* what the provider does to a non-streaming request of the openai client
RemoteInputs ==
    {[createErr |-> "", resp |-> r] : r \in Responses}
    \cup {[createErr |-> e, resp |-> NoResponse] : e \in CreateErrors \ {""}}

\* what happens to a raw HTTP request of chatWithQwen
QwenInputs ==
    [marshalOk : BOOLEAN, requestOk : BOOLEAN, sendOk : BOOLEAN,
     status : Statuses, bodyOk : BOOLEAN, resp : Responses]

\* ollamaapi.ChatResponse as handed to the callback
EvalCounts == {0, 1, 2}
OllamaResponses == [Content : Contents, EvalCount : EvalCounts, PromptEvalCount : EvalCounts]

\* types.LLMToolCall built at remote_api.go:253-260 and 337-344
LLMToolCall(tc) ==
    [ID |-> tc.ID, Type |-> tc.Type, Function |-> [Name |-> tc.Name, Arguments |-> tc.Arguments]]

\* types.ChatResponse built at remote_api.go:233-263 and 317-347
ChatResponse(choice, usage) ==
    [Content      |-> choice.Content,
     FinishReason |-> choice.FinishReason,
     Usage        |-> Usage(usage.PromptTokens, usage.CompletionTokens, usage.TotalTokens),
     ToolCalls    |-> [j \in 1..Len(choice.ToolCalls) |-> LLMToolCall(choice.ToolCalls[j])]]

\* a returned pair: resp is <<>> for nil, err is "" for nil
Returned(resp, err) == [resp |-> resp, err |-> err]

\* RemoteAPIChat.Chat, remote_api.go:219-263
RemoteChatResult(in) ==
    IF in.createErr # "" THEN Returned(<<>>, "create chat completion")
    ELSE IF Len(in.resp.Choices) = 0 THEN Returned(<<>>, "no response from OpenAI")
    ELSE Returned(<<ChatResponse(in.resp.Choices[1], in.resp.Usage)>>, "")

\* faulty variant: the status of the HTTP response is not looked at
chatWithQwenResultAnyStatus(in) ==
    IF ~in.marshalOk THEN Returned(<<>>, "marshal request")
    ELSE IF ~in.requestOk THEN Returned(<<>>, "create request")
    ELSE IF ~in.sendOk THEN Returned(<<>>, "send request")
    ELSE IF ~in.bodyOk THEN Returned(<<>>, "decode response")
    ELSE IF Len(in.resp.Choices) = 0 THEN Returned(<<>>, "no response from API")
    ELSE Returned(<<ChatResponse(in.resp.Choices[1], in.resp.Usage)>>, "")

\* faulty variant: the body is decoded before the status is looked at
chatWithQwenResultDecodeFirst(in) ==
    IF ~in.marshalOk THEN Returned(<<>>, "marshal request")
    ELSE IF ~in.requestOk THEN Returned(<<>>, "create request")
    ELSE IF ~in.sendOk THEN Returned(<<>>, "send request")
    ELSE IF ~in.bodyOk THEN Returned(<<>>, "decode response")
    ELSE IF in.status # StatusOK THEN Returned(<<>>, "API request failed with status")
    ELSE IF Len(in.resp.Choices) = 0 THEN Returned(<<>>, "no response from API")
    ELSE Returned(<<ChatResponse(in.resp.Choices[1], in.resp.Usage)>>, "")

\* RemoteAPIChat.chatWithQwen, remote_api.go:266-347
chatWithQwenResult(in) ==
    IF ~in.marshalOk THEN Returned(<<>>, "marshal request")
    ELSE IF ~in.requestOk THEN Returned(<<>>, "create request")
    ELSE IF ~in.sendOk THEN Returned(<<>>, "send request")
    ELSE IF in.status # StatusOK THEN Returned(<<>>, "API request failed with status")
    ELSE IF ~in.bodyOk THEN Returned(<<>>, "decode response")
    ELSE IF Len(in.resp.Choices) = 0 THEN Returned(<<>>, "no response from API")
    ELSE Returned(<<ChatResponse(in.resp.Choices[1], in.resp.Usage)>>, "")

\* ollama.go:82-83: the locals of OllamaChat.Chat before the first callback
NoLocals == [responseContent |-> "", promptTokens |-> 0, completionTokens |-> 0]

\* faulty variant: the counts are taken from every response
ChatCallbackEveryCount(l, resp) ==
    [responseContent  |-> resp.Content,
     promptTokens     |-> resp.PromptEvalCount,
     completionTokens |-> resp.EvalCount - resp.PromptEvalCount]

\* ollama.go:85-94: the callback passed to ollamaService.Chat
ChatCallback(l, resp) ==
    IF resp.EvalCount > 0
    THEN [responseContent  |-> resp.Content,
          promptTokens     |-> resp.PromptEvalCount,
          completionTokens |-> resp.EvalCount - resp.PromptEvalCount]
    ELSE [l EXCEPT !.responseContent = resp.Content]

\* ollama.go:95-110
OllamaChatResult(err, l) ==
    IF err THEN Returned(<<>>, "chat request failed")
    ELSE Returned(<<[Content      |-> l.responseContent,
                     FinishReason |-> "",
                     Usage        |-> Usage(l.promptTokens, l.completionTokens,
                                            l.promptTokens + l.completionTokens),
                     ToolCalls    |-> <<>>]>>, "")

InitChat ==
    /\ chatCall = "none"
    /\ chatPc = "idle"
    /\ chatIn = <<>>
    /\ chatLocals = NoLocals
    /\ chatRes = Returned(<<>>, "")
    /\ chatOps = <<>>

\* RemoteAPIChat.Chat for a model that is not of the qwen3 family,
\* remote_api.go:213-263
RemoteChat ==
    /\ chatPc = "idle"
    /\ \E in \in RemoteInputs :
          /\ chatIn' = in
          /\ chatRes' = RemoteChatResult(in)
    /\ chatCall' = "remote"
    /\ chatPc' = "returned"
    /\ UNCHANGED <<chatLocals, chatOps>>
    /\ UNCHANGED nonChatVars

\* RemoteAPIChat.Chat for a qwen3 model: remote_api.go:215-217, 266-347
chatWithQwen ==
    /\ chatPc = "idle"
    /\ \E in \in QwenInputs :
          /\ chatIn' = in
          /\ chatRes' = chatWithQwenResult(in)
    /\ chatCall' = "qwen"
    /\ chatPc' = "returned"
    /\ UNCHANGED <<chatLocals, chatOps>>
    /\ UNCHANGED nonChatVars

\* faulty variant: the error of ensureModelAvailable is not looked at
OllamaChatIgnoringEnsure ==
    /\ chatPc = "idle"
    /\ \E ensureOk \in BOOLEAN :
          /\ chatIn' = [ensureOk |-> ensureOk, callbacks |-> <<>>, err |-> FALSE]
          /\ chatOps' = <<"EnsureModelAvailable", "Chat">>
    /\ chatPc' = "callbacks"
    /\ chatRes' = chatRes
    /\ chatCall' = "ollama"
    /\ chatLocals' = NoLocals
    /\ UNCHANGED nonChatVars

\* OllamaChat.Chat up to the call of ollamaService.Chat, ollama.go:73-85
OllamaChat ==
    /\ chatPc = "idle"
    /\ \E ensureOk \in BOOLEAN :
          /\ chatIn' = [ensureOk |-> ensureOk, callbacks |-> <<>>, err |-> FALSE]
          /\ chatOps' = OllamaServiceOps(ensureOk)
          /\ IF ensureOk
             THEN /\ chatPc' = "callbacks"
                  /\ chatRes' = chatRes
             ELSE /\ chatPc' = "returned"
                  /\ chatRes' = Returned(<<>>, "ensure model available")
    /\ chatCall' = "ollama"
    /\ chatLocals' = NoLocals
    /\ UNCHANGED nonChatVars

\* the runtime invokes the callback, ollama.go:85-94
OllamaChatCallback ==
    /\ chatPc = "callbacks"
    /\ Len(chatIn.callbacks) < MaxCallbacks
    /\ \E resp \in OllamaResponses :
          /\ chatIn' = [chatIn EXCEPT !.callbacks = Append(@, resp)]
          /\ chatLocals' = ChatCallback(chatLocals, resp)
    /\ UNCHANGED <<chatCall, chatPc, chatRes, chatOps>>
    /\ UNCHANGED nonChatVars

\* ollamaService.Chat returns, ollama.go:95-110
OllamaChatReturn ==
    /\ chatPc = "callbacks"
    /\ \E err \in BOOLEAN :
          /\ chatIn' = [chatIn EXCEPT !.err = err]
          /\ chatRes' = OllamaChatResult(err, chatLocals)
    /\ chatPc' = "returned"
    /\ UNCHANGED <<chatCall, chatLocals, chatOps>>
    /\ UNCHANGED nonChatVars

(***************************************************************************)
(* Two concurrent ChatStream calls on one RemoteAPIChat                    *)
(*                                                                         *)
(* Each call has its own stream, its own channel and its own worker; a     *)
(* step of a worker is the processing of one tool-call delta (lines        *)
(* 410-466) with the send of its notification, or the final event of lines *)
(* 393-402 and the close.                                                  *)
(***************************************************************************)
\* number of tool-call deltas in each of the two streams
MaxPairDeltas == 2

Calls == {1, 2}

\* the fragments of one call, and a second name fragment
PairDeltas ==
    {Delta(0, "c1", "function", "a", ""), Delta(0, "", "", "", "x"), Delta(0, "", "", "b", "")}

\* remote_api.go:371-373: the three maps as the worker makes them
NewLocals ==
    [toolCallMap      |-> [i \in Indices |-> NoEntry],
     lastFunctionName |-> [i \in Indices |-> ""],
     nameNotified     |-> [i \in Indices |-> FALSE]]

\* faulty variant: the three maps are fields of the adapter
LocalsOfAdapter(c) == 1

\* remote_api.go:367-373: the maps are locals of the goroutine of the call
Locals(c) == c

\* remote_api.go:410-466: one delta processed on the maps l: the maps after
\* it and the events sent
StepDelta(l, tc) ==
    LET i      == ToolCallIndex(tc)
        e      == Accumulate(LookupOrCreate(l.toolCallMap, i, tc), tc)
        notify == ShouldNotify(e.Name, l.lastFunctionName[i], tc.Arguments # "",
                               l.nameNotified[i], e.ID)
    IN  [locals |-> [toolCallMap      |-> [l.toolCallMap EXCEPT ![i] = e],
                     lastFunctionName |-> [l.lastFunctionName EXCEPT ![i] = e.Name],
                     nameNotified     |-> [l.nameNotified EXCEPT ![i] = @ \/ notify]],
         events |-> IF notify THEN <<ToolCallEvent(e.Name, e.ID, i)>> ELSE <<>>]

InitPair ==
    /\ pairPc = [c \in Calls |-> "none"]
    /\ pairLocals = [c \in Calls |-> NewLocals]
    /\ pairDeltas = [c \in Calls |-> <<>>]
    /\ pairEvents = [c \in Calls |-> <<>>]

\* remote_api.go:350-373: ChatStream is called and its worker makes its maps
PairStart(c) ==
    /\ pairPc[c] = "none"
    /\ pairPc' = [pairPc EXCEPT ![c] = "recv"]
    /\ pairLocals' = [pairLocals EXCEPT ![Locals(c)] = NewLocals]
    /\ UNCHANGED <<pairDeltas, pairEvents>>
    /\ UNCHANGED nonPairVars

\* remote_api.go:392, 410-466: the worker of call c receives and processes
\* one delta
PairDelta(c) ==
    /\ pairPc[c] = "recv"
    /\ Len(pairDeltas[c]) < MaxPairDeltas
    /\ \E tc \in PairDeltas :
          LET r == StepDelta(pairLocals[Locals(c)], tc)
          IN  /\ pairLocals' = [pairLocals EXCEPT ![Locals(c)] = r.locals]
              /\ pairEvents' = [pairEvents EXCEPT ![c] = @ \o r.events]
              /\ pairDeltas' = [pairDeltas EXCEPT ![c] = Append(@, tc)]
    /\ UNCHANGED pairPc
    /\ UNCHANGED nonPairVars

\* fragments that differ in the index, the id and the type they carry
FragmentDeltas ==
    {Delta(f[1], f[2], f[3], "", "") :
        f \in (Indices \cup {NoIndex}) \X {"", "c1", "c2"} \X {"", "function", "custom"}}

\* remote_api.go:392, 410-466: the worker of the first call receives and
\* processes one of these fragments
FragmentDelta ==
    /\ pairPc[1] = "recv"
    /\ Len(pairDeltas[1]) < MaxPairDeltas
    /\ \E tc \in FragmentDeltas :
          LET r == StepDelta(pairLocals[Locals(1)], tc)
          IN  /\ pairLocals' = [pairLocals EXCEPT ![Locals(1)] = r.locals]
              /\ pairEvents' = [pairEvents EXCEPT ![1] = @ \o r.events]
              /\ pairDeltas' = [pairDeltas EXCEPT ![1] = Append(@, tc)]
    /\ UNCHANGED pairPc
    /\ UNCHANGED nonPairVars

\* remote_api.go:392-402, 368: the transport of call c ends, its worker sends
\* the final event and closes the channel
PairEnd(c) ==
    /\ pairPc[c] = "recv"
    /\ pairEvents' = [pairEvents EXCEPT
           ![c] = Append(@, FinalEvent(pairLocals[Locals(c)].toolCallMap))]
    /\ pairPc' = [pairPc EXCEPT ![c] = "closed"]
    /\ UNCHANGED <<pairLocals, pairDeltas>>
    /\ UNCHANGED nonPairVars

(***************************************************************************)
(* Strings the code takes apart: sequences of characters                   *)
(***************************************************************************)
UpperCase ==
    <<"A", "B", "C", "D", "E", "F", "G", "H", "I", "J", "K", "L", "M",
      "N", "O", "P", "Q", "R", "S", "T", "U", "V", "W", "X", "Y", "Z">>
LowerCase ==
    <<"a", "b", "c", "d", "e", "f", "g", "h", "i", "j", "k", "l", "m",
      "n", "o", "p", "q", "r", "s", "t", "u", "v", "w", "x", "y", "z">>

\* strings.ToLower
LowerOf(ch) ==
    IF \E k \in 1..Len(UpperCase) : UpperCase[k] = ch
    THEN LowerCase[CHOOSE k \in 1..Len(UpperCase) : UpperCase[k] = ch]
    ELSE ch
ToLower(str) == [k \in 1..Len(str) |-> LowerOf(str[k])]

\* strings.Contains
Contains(str, sub) ==
    \E k \in 0..(Len(str) - Len(sub)) : SubSeq(str, k + 1, k + Len(sub)) = sub

\* strings.HasPrefix
HasPrefix(str, prefix) ==
    Len(str) >= Len(prefix) /\ SubSeq(str, 1, Len(prefix)) = prefix

(***************************************************************************)
(* Request building, remote_api.go:87-210                                  *)
(***************************************************************************)
NameDeepSeekChat == <<"d", "e", "e", "p", "s", "e", "e", "k", "-", "c", "h", "a", "t">>
NameDeepSeekV3 == <<"D", "e", "e", "p", "S", "e", "e", "k", "-", "V", "3">>
NameMyDeepSeek == <<"m", "y", "-", "D", "E", "E", "P", "S", "E", "E", "K">>
NameQwen3 == <<"q", "w", "e", "n", "3", "-", "8", "b">>
NameQwen3Upper == <<"Q", "w", "e", "n", "3", "-", "8", "b">>
NameQwen3DeepSeek == <<"q", "w", "e", "n", "3", "-", "d", "e", "e", "p", "s", "e", "e", "k">>
NameQwen2 == <<"q", "w", "e", "n", "2", "-", "7", "b">>
NameGpt == <<"g", "p", "t", "-", "4">>
ModelNames ==
    {NameDeepSeekChat, NameDeepSeekV3, NameMyDeepSeek, NameQwen3, NameQwen3Upper,
     NameQwen3DeepSeek, NameQwen2, NameGpt}

DashScopeURL == "https://dashscope.aliyuncs.com/compatible-mode/v1"
BaseURLs == {DashScopeURL, "https://api.deepseek.com/v1", ""}

\* the fields of RemoteAPIChat the builders read
Configs == [modelName : ModelNames, baseURL : BaseURLs]

\* ChatOptions.ToolChoice: unset, the three directives, the name of a tool
ToolChoices == {"", "auto", "required", "none", "get_weather"}

\* ChatOptions.Tools
ToolGetWeather == [Type |-> "function", Name |-> "get_weather", Description |-> "weather"]
ToolLists == {<<>>, <<ToolGetWeather>>}

\* values of the float64 options, counted in steps float64 can tell apart;
\* a float32 holds every second one
Float64s == {-2, 0, 2, 3}

\* values of the int options
Ints == {-1, 0, 1}

\* the conversion float32(x): the nearest value a float32 holds, a tie going
\* to the one with the even mantissa
Float32Of(x) ==
    LET q == x \div 2
    IN  IF x % 2 = 0 THEN x
        ELSE IF q % 2 = 0 THEN 2 * q
        ELSE 2 * (q + 1)

\* the numeric fields of ChatOptions left at their zero value
NoNumerics ==
    [Temperature |-> 0, TopP |-> 0, MaxTokens |-> 0, MaxCompletionTokens |-> 0,
     FrequencyPenalty |-> 0, PresencePenalty |-> 0]

\* chat.go:27-34
Numerics ==
    [Temperature : Float64s, TopP : Float64s, MaxTokens : Ints,
     MaxCompletionTokens : Ints, FrequencyPenalty : Float64s,
     PresencePenalty : Float64s]

\* *ChatOptions: nil, or the options; Thinking is a *bool, <<>> for nil
NilOptions ==
    [isNil |-> TRUE, Thinking |-> <<>>, Tools |-> <<>>, ToolChoice |-> "",
     Numeric |-> NoNumerics]

\* options that differ in thinking, tools and tool_choice
Options ==
    {NilOptions}
    \cup [isNil : {FALSE}, Thinking : {<<>>, <<TRUE>>, <<FALSE>>},
          Tools : ToolLists, ToolChoice : ToolChoices, Numeric : {NoNumerics}]

\* options that differ in the numeric fields
NumericOptions ==
    [isNil : {FALSE}, Thinking : {<<>>}, Tools : {<<>>}, ToolChoice : {""},
     Numeric : Numerics]

\* number of messages of a conversation
MaxMessages == 2

\* chat.go:41-59: Message and its ToolCall
Message(role, content, name, toolCallID, toolCalls) ==
    [Role |-> role, Content |-> content, Name |-> name, ToolCallID |-> toolCallID,
     ToolCalls |-> toolCalls]
MessageCall1 ==
    [ID |-> "c1", Type |-> "function",
     Function |-> [Name |-> "get_weather", Arguments |-> "{}"]]
MessageCall2 ==
    [ID |-> "c2", Type |-> "function",
     Function |-> [Name |-> "get_time", Arguments |-> ""]]

\* a message of every role; an assistant message with tool calls and no
\* content, and one with both; a name on a message that is not of a tool
Messages ==
    {Message("system", "be brief", "", "", <<>>),
     Message("user", "hi", "bob", "", <<>>),
     Message("assistant", "", "", "", <<MessageCall1, MessageCall2>>),
     Message("assistant", "let me check", "", "", <<MessageCall2>>),
     Message("tool", "sunny", "get_weather", "c1", <<>>),
     Message("user", "", "", "", <<>>)}

MessageLists == UNION {[1..n -> Messages] : n \in 0..MaxMessages}

\* faulty variant: the content is kept only of a message without tool calls
convertMessageContentOrToolCalls(msg) ==
    [Role       |-> msg.Role,
     Content    |-> IF Len(msg.ToolCalls) = 0 THEN msg.Content ELSE "",
     ToolCalls  |-> [j \in 1..Len(msg.ToolCalls) |->
                        [ID |-> msg.ToolCalls[j].ID,
                         Type |-> msg.ToolCalls[j].Type,
                         Function |-> [Name |-> msg.ToolCalls[j].Function.Name,
                                       Arguments |-> msg.ToolCalls[j].Function.Arguments]]],
     ToolCallID |-> IF msg.Role = "tool" THEN msg.ToolCallID ELSE "",
     Name       |-> IF msg.Role = "tool" THEN msg.Name ELSE ""]

\* remote_api.go:50-82: the openai.ChatCompletionMessage of one message
convertMessage(msg) ==
    [Role       |-> msg.Role,
     Content    |-> IF msg.Content # "" THEN msg.Content ELSE "",
     ToolCalls  |-> IF Len(msg.ToolCalls) > 0
                    THEN [j \in 1..Len(msg.ToolCalls) |->
                             [ID |-> msg.ToolCalls[j].ID,
                              Type |-> msg.ToolCalls[j].Type,
                              Function |-> [Name |-> msg.ToolCalls[j].Function.Name,
                                            Arguments |-> msg.ToolCalls[j].Function.Arguments]]]
                    ELSE <<>>,
     ToolCallID |-> IF msg.Role = "tool" THEN msg.ToolCallID ELSE "",
     Name       |-> IF msg.Role = "tool" THEN msg.Name ELSE ""]

\* remote_api.go:47-85
convertMessages(messages) == [k \in 1..Len(messages) |-> convertMessage(messages[k])]

\* ollama.go:29-38
OllamaConvertMessages(messages) ==
    [k \in 1..Len(messages) |-> [Role |-> messages[k].Role, Content |-> messages[k].Content]]

\* the ToolChoice of a request: not set, a string, or openai.ToolChoice
ToolChoiceUnset == [kind |-> "unset", value |-> ""]
ToolChoiceString(v) == [kind |-> "string", value |-> v]
ToolChoiceFunction(name) == [kind |-> "function", value |-> name]

\* remote_api.go:87-90
isAliyunQwen3Model(cfg) ==
    HasPrefix(cfg.modelName, <<"q", "w", "e", "n", "3", "-">>) /\ cfg.baseURL = DashScopeURL

\* faulty variant: the name is not lowered before the search
isDeepSeekModelCaseSensitive(cfg) ==
    Contains(cfg.modelName, <<"d", "e", "e", "p", "s", "e", "e", "k">>)

\* remote_api.go:93-95
isDeepSeekModel(cfg) ==
    Contains(ToLower(cfg.modelName), <<"d", "e", "e", "p", "s", "e", "e", "k">>)

\* remote_api.go:149-166
ConvertTools(tools) ==
    [k \in 1..Len(tools) |->
        [Type |-> tools[k].Type, Name |-> tools[k].Name, Description |-> tools[k].Description]]

\* faulty variant: every value is placed in the request as a string
ConvertToolChoiceAsString(cfg, toolChoice) ==
    IF toolChoice = "" THEN ToolChoiceUnset
    ELSE IF isDeepSeekModel(cfg) THEN ToolChoiceUnset
    ELSE ToolChoiceString(toolChoice)

\* remote_api.go:174-195
ConvertToolChoice(cfg, toolChoice) ==
    IF toolChoice = "" THEN ToolChoiceUnset
    ELSE IF isDeepSeekModel(cfg) THEN ToolChoiceUnset
    ELSE IF toolChoice \in {"none", "required", "auto"} THEN ToolChoiceString(toolChoice)
    ELSE ToolChoiceFunction(toolChoice)

\* remote_api.go:126-131, 138-143: a float64 option is forwarded, as a
\* float32, when it is greater than zero; the field is 0 otherwise
ForwardFloat32(v) == IF v > 0 THEN Float32Of(v) ELSE 0

\* remote_api.go:132-137: an int option is forwarded when it is greater than
\* zero
ForwardInt(v) == IF v > 0 THEN v ELSE 0

\* faulty variant: the caller's thinking option is not read
EffectiveThinkingIgnored(opts) == FALSE

\* remote_api.go:122, 144-146: false unless the options are there and
\* Thinking points to true
EffectiveThinking(opts) ==
    IF ~opts.isNil /\ opts.Thinking # <<>> THEN opts.Thinking[1] ELSE FALSE

\* remote_api.go:114-210; EnableThinking is the field of
\* QwenChatCompletionRequest, absent (<<>>) from openai.ChatCompletionRequest;
\* a numeric field that is not set is 0
buildChatCompletionRequest(cfg, messages, opts, isStream) ==
    LET thinking == EffectiveThinking(opts)
        num == IF opts.isNil THEN NoNumerics ELSE opts.Numeric
    IN  [Model               |-> cfg.modelName,
         Messages            |-> convertMessages(messages),
         Stream              |-> isStream,
         Temperature         |-> ForwardFloat32(num.Temperature),
         TopP                |-> ForwardFloat32(num.TopP),
         MaxTokens           |-> ForwardInt(num.MaxTokens),
         MaxCompletionTokens |-> ForwardInt(num.MaxCompletionTokens),
         FrequencyPenalty    |-> ForwardFloat32(num.FrequencyPenalty),
         PresencePenalty     |-> ForwardFloat32(num.PresencePenalty),
         Tools               |-> IF opts.isNil THEN <<>> ELSE ConvertTools(opts.Tools),
         ToolChoice          |-> IF opts.isNil THEN ToolChoiceUnset
                                 ELSE ConvertToolChoice(cfg, opts.ToolChoice),
         ChatTemplateKwargs  |-> [enable_thinking |-> thinking],
         EnableThinking      |-> <<>>]

\* faulty variant: the top-level field follows the caller's thinking option
buildQwenChatCompletionRequestOfCaller(cfg, messages, opts, isStream) ==
    [buildChatCompletionRequest(cfg, messages, opts, isStream) EXCEPT
        !.EnableThinking = IF ~isStream
                           THEN <<buildChatCompletionRequest(cfg, messages, opts, isStream).ChatTemplateKwargs.enable_thinking>>
                           ELSE <<>>]

\* remote_api.go:98-111
buildQwenChatCompletionRequest(cfg, messages, opts, isStream) ==
    [buildChatCompletionRequest(cfg, messages, opts, isStream) EXCEPT
        !.EnableThinking = IF ~isStream THEN <<FALSE>> ELSE <<>>]

\* no request has been built
NoRequest == [call |-> "none", route |-> "none"]

\* remote_api.go:213-221: the request of a non-streaming Chat and the way it
\* is sent
ChatRequestOf(cfg, messages, opts) ==
    IF isAliyunQwen3Model(cfg)
    THEN [call |-> "Chat", route |-> "http.Client.Do",
          req |-> buildQwenChatCompletionRequest(cfg, messages, opts, FALSE)]
    ELSE [call |-> "Chat", route |-> "CreateChatCompletion",
          req |-> buildChatCompletionRequest(cfg, messages, opts, FALSE)]

\* remote_api.go:350-360: the request of ChatStream
ChatStreamRequestOf(cfg, messages, opts) ==
    [call |-> "ChatStream", route |-> "CreateChatCompletionStream",
     req |-> buildChatCompletionRequest(cfg, messages, opts, TRUE)]

\* the model of the local adapter
NameLlama == <<"l", "l", "a", "m", "a", "3">>

\* ollama.go:52-61: the Options map has a key for each numeric option that
\* is greater than zero, with the caller's value
OllamaOptions(opts) ==
    LET num == IF opts.isNil THEN NoNumerics ELSE opts.Numeric
        value == [k \in {"temperature", "top_p", "num_predict"} |->
                     IF k = "temperature" THEN num.Temperature
                     ELSE IF k = "top_p" THEN num.TopP
                     ELSE num.MaxTokens]
    IN  [k \in {j \in DOMAIN value : value[j] > 0} |-> value[k]]

\* ollama.go:42-70
buildChatRequest(cfg, messages, opts, isStream) ==
    [Model   |-> cfg.modelName,
     Messages |-> OllamaConvertMessages(messages),
     Stream  |-> isStream,
     Options |-> OllamaOptions(opts),
     Think   |-> IF ~opts.isNil /\ opts.Thinking # <<>> THEN opts.Thinking ELSE <<>>]

\* ollama.go:78 and 123: the request of OllamaChat.Chat and of
\* OllamaChat.ChatStream
OllamaRequestOf(cfg, messages, opts, isStream) ==
    [call |-> IF isStream THEN "OllamaChatStream" ELSE "OllamaChat",
     route |-> "ollamaService.Chat",
     req |-> buildChatRequest(cfg, messages, opts, isStream)]

\* the adapters and options the requests are built for: every adapter with
\* the options that differ in thinking and tools, one adapter with the
\* options that differ in the numeric fields
RequestInputs ==
    [cfg : Configs, messages : {<<>>}, opts : Options]
    \cup [cfg : {[modelName |-> NameGpt, baseURL |-> ""]}, messages : {<<>>},
          opts : NumericOptions]
    \cup [cfg : {[modelName |-> NameGpt, baseURL |-> ""]}, messages : MessageLists,
          opts : {NilOptions}]

OllamaRequestInputs ==
    [cfg : {[modelName |-> NameLlama, baseURL |-> ""]}, messages : {<<>>},
     opts : Options \cup NumericOptions]
    \cup [cfg : {[modelName |-> NameLlama, baseURL |-> ""]}, messages : MessageLists,
          opts : {NilOptions}]

InitRequest ==
    /\ reqCfg = [modelName |-> NameGpt, baseURL |-> ""]
    /\ reqOpts = NilOptions
    /\ reqMsgs = <<>>
    /\ reqOut = NoRequest

\* RemoteAPIChat.Chat builds its request
ChatRequest ==
    /\ reqOut = NoRequest
    /\ \E in \in RequestInputs :
          /\ reqCfg' = in.cfg
          /\ reqOpts' = in.opts
          /\ reqMsgs' = in.messages
          /\ reqOut' = ChatRequestOf(in.cfg, in.messages, in.opts)
    /\ UNCHANGED newChatVars
    /\ UNCHANGED nonBuildVars

\* RemoteAPIChat.ChatStream builds its request
ChatStreamRequest ==
    /\ reqOut = NoRequest
    /\ \E in \in RequestInputs :
          /\ reqCfg' = in.cfg
          /\ reqOpts' = in.opts
          /\ reqMsgs' = in.messages
          /\ reqOut' = ChatStreamRequestOf(in.cfg, in.messages, in.opts)
    /\ UNCHANGED newChatVars
    /\ UNCHANGED nonBuildVars

\* OllamaChat.Chat or OllamaChat.ChatStream builds its request
OllamaRequest ==
    /\ reqOut = NoRequest
    /\ \E in \in OllamaRequestInputs, isStream \in BOOLEAN :
          /\ reqCfg' = in.cfg
          /\ reqOpts' = in.opts
          /\ reqMsgs' = in.messages
          /\ reqOut' = OllamaRequestOf(in.cfg, in.messages, in.opts, isStream)
    /\ UNCHANGED newChatVars
    /\ UNCHANGED nonBuildVars

(***************************************************************************)
(* NewChat, chat.go:86-103                                                 *)
(***************************************************************************)
\* types.ModelSourceLocal and types.ModelSourceRemote
ModelSourceLocal == <<"l", "o", "c", "a", "l">>
ModelSourceRemote == <<"r", "e", "m", "o", "t", "e">>

\* values of config.Source
Sources ==
    {ModelSourceLocal, ModelSourceRemote, <<"L", "O", "C", "A", "L">>, <<"R", "e", "m", "o", "t", "e">>, <<>>,
     <<"o", "p", "e", "n", "a", "i">>, <<"l", "o", "c", "a", "l", "s">>}

\* what the call has to work with: config.Source, and whether the container
\* of runtime.GetContainer() can provide the *ollama.OllamaService (Invoke
\* calls the function it is given only then; NewChat drops Invoke's error)
NewChatInputs == [source : Sources, provided : BOOLEAN]

\* chat and err after chat.go:91-93
InvokeNewOllamaChat(provided) ==
    IF provided THEN [chat |-> "OllamaChat", err |-> ""]
    ELSE [chat |-> "nil", err |-> ""]

\* chat.go:86-103
NewChat(in) ==
    IF ToLower(in.source) = ModelSourceLocal
    THEN InvokeNewOllamaChat(in.provided)
    ELSE IF ToLower(in.source) = ModelSourceRemote
    THEN [chat |-> "RemoteAPIChat", err |-> ""]
    ELSE [chat |-> "nil", err |-> "unsupported chat model source"]

NotConstructed == [chat |-> "none", err |-> ""]

InitNewChat ==
    /\ newChatIn = [source |-> <<>>, provided |-> FALSE]
    /\ newChatOut = NotConstructed

\* a call of NewChat
NewChatCall ==
    /\ newChatOut = NotConstructed
    /\ \E in \in NewChatInputs :
          /\ newChatIn' = in
          /\ newChatOut' = NewChat(in)
    /\ UNCHANGED reqVars
    /\ UNCHANGED nonBuildVars

(***************************************************************************)
(* EventBus, internal/event/event.go                                       *)
(*                                                                         *)
(* On, Off and Clear take the write lock, change the registry and release  *)
(* the lock without blocking in between: one step each. An emission reads  *)
(* the slice of its event type under the read lock, then invokes the       *)
(* handlers it read: one after the other in the caller's goroutine (Emit   *)
(* in sync mode), or each in a goroutine of its own. A handler is cut at   *)
(* its invocation and at its return; whatever it calls on the bus in       *)
(* between is a step of On, Off, Clear or of the other emitter.            *)
(***************************************************************************)
\* number of calls of On
MaxOn == 2

\* the handlers: the n-th call of On registers handler n
HandlerIds == 1..MaxOn

\* event.go:38-39
EventChatStart == "chat.start"
EventChatComplete == "chat.complete"
EventTypes == {EventChatStart, EventChatComplete}

\* the caller of Emit or EmitAndWait, and a handler or another goroutine
\* that emits while the first emission is under way
Emitters == {1, 2}

\* an emitter that has not emitted
NoEmission ==
    [kind |-> "none", type |-> "", handlers |-> <<>>, started |-> {}, finished |-> {},
     failed |-> {}, result |-> "none", readAt |-> 0, liveAtRead |-> {}]

\* the write lock of eb.mu can be taken
WriteLockFree == busReaders = {}

\* faulty variant: the read lock is held until the emission returns
ReadersHeldDuringHandlers(readers, e) == readers \cup {e}

\* event.go:129-131, 168-170: RLock, read, RUnlock; the readers after it
ReadersAfterRead(readers, e) == readers \ {e}

\* event.go:133-147: what Emit returns right after the read: nil without
\* handlers, nil in async mode once the goroutines are started; nothing yet
\* ("none") in sync mode
EmitAfterRead(mode, hs) ==
    IF Len(hs) = 0 THEN "nil"
    ELSE IF mode = "async" THEN "nil"
    ELSE "none"

\* event.go:172-174: EmitAndWait returns nil without handlers
EmitAndWaitAfterRead(hs) == IF Len(hs) = 0 THEN "nil" ELSE "none"

\* the handlers are invoked one after the other by the emitter itself
Sequential(m) == m.kind = "Emit" /\ busMode = "sync"

\* event.go:150-151: the loop of sync mode invokes handler k after the
\* handlers before it have returned nil; event.go:140-144, 179-188: a
\* goroutine invokes its handler whenever it is scheduled
MayInvoke(m, k) ==
    IF Sequential(m)
    THEN m.result = "none" /\ m.started = m.finished /\ k = Cardinality(m.started) + 1
    ELSE k \notin m.started

\* faulty variant: the loop goes on after a failure and reports it at the end
SyncResultAtEnd(m, k, err) ==
    IF k < Len(m.handlers) THEN "none"
    ELSE IF err \/ m.failed # {} THEN "error"
    ELSE "nil"

\* event.go:150-156: what sync Emit does when handler k returns: the error
\* at once, nil after the last handler, the next handler otherwise
SyncResult(m, k, err) ==
    IF err THEN "error"
    ELSE IF k = Len(m.handlers) THEN "nil"
    ELSE "none"

\* faulty variant: the wait is over when one handler has returned
WaitOverAtFirst(m) == m.finished # {}

\* event.go:191: wg.Wait returns when every goroutine has called Done
WaitOver(m) == m.finished = 1..Len(m.handlers)

\* event.go:192-201: errChan has room for every handler, so each error is
\* in it when the wait is over; the first one is returned
EmitAndWaitResult(m) == IF m.failed # {} THEN "error" ELSE "nil"

InitBus ==
    /\ busMode = "none"
    /\ busHandlers = [t \in EventTypes |-> <<>>]
    /\ busReaders = {}
    /\ emission = [e \in Emitters |-> NoEmission]
    /\ nOn = 0
    /\ typeOf = [h \in HandlerIds |-> ""]
    /\ live = {}

\* event.go:88-93
NewEventBus ==
    /\ busMode = "none"
    /\ busMode' = "sync"
    /\ UNCHANGED <<registryVars, busReaders, emission>>
    /\ UNCHANGED nonBusVars

\* event.go:96-101
NewAsyncEventBus ==
    /\ busMode = "none"
    /\ busMode' = "async"
    /\ UNCHANGED <<registryVars, busReaders, emission>>
    /\ UNCHANGED nonBusVars

\* event.go:105-110
On(t) ==
    /\ busMode # "none"
    /\ WriteLockFree
    /\ nOn < MaxOn
    /\ nOn' = nOn + 1
    /\ busHandlers' = [busHandlers EXCEPT ![t] = Append(@, nOn + 1)]
    /\ typeOf' = [typeOf EXCEPT ![nOn + 1] = t]
    /\ live' = live \cup {nOn + 1}
    /\ UNCHANGED <<busMode, busReaders, emission>>
    /\ UNCHANGED nonBusVars

\* event.go:113-118
Off(t) ==
    /\ busMode # "none"
    /\ WriteLockFree
    /\ busHandlers' = [busHandlers EXCEPT ![t] = <<>>]
    /\ live' = {h \in live : typeOf[h] # t}
    /\ UNCHANGED <<nOn, typeOf, busMode, busReaders, emission>>
    /\ UNCHANGED nonBusVars

\* event.go:225-230
Clear ==
    /\ busMode # "none"
    /\ WriteLockFree
    /\ busHandlers' = [t \in EventTypes |-> <<>>]
    /\ live' = {}
    /\ UNCHANGED <<nOn, typeOf, busMode, busReaders, emission>>
    /\ UNCHANGED nonBusVars

\* the emission of emitter e after it has read the registry
Read(e, kind, t, result) ==
    /\ emission' = [emission EXCEPT ![e] =
           [NoEmission EXCEPT !.kind = kind, !.type = t, !.handlers = busHandlers[t],
                              !.result = result, !.readAt = nOn,
                              !.liveAtRead = {h \in live : typeOf[h] = t}]]
    /\ busReaders' = IF result = "none" THEN ReadersAfterRead(busReaders, e)
                     ELSE busReaders \ {e}

\* event.go:123-147: Emit up to its first handler, or to its return
Emit(e) ==
    /\ busMode # "none"
    /\ emission[e].kind = "none"
    /\ \E t \in EventTypes : Read(e, "Emit", t, EmitAfterRead(busMode, busHandlers[t]))
    /\ UNCHANGED <<busMode, registryVars>>
    /\ UNCHANGED nonBusVars

\* event.go:162-189: EmitAndWait up to wg.Wait, or to its return
EmitAndWait(e) ==
    /\ busMode # "none"
    /\ emission[e].kind = "none"
    /\ \E t \in EventTypes : Read(e, "EmitAndWait", t, EmitAndWaitAfterRead(busHandlers[t]))
    /\ UNCHANGED <<busMode, registryVars>>
    /\ UNCHANGED nonBusVars

\* event.go:143, 151, 185: a handler the emission read is invoked
HandlerStart(e) ==
    /\ emission[e].kind # "none"
    /\ \E k \in 1..Len(emission[e].handlers) :
          /\ MayInvoke(emission[e], k)
          /\ emission' = [emission EXCEPT ![e].started = @ \cup {k}]
    /\ UNCHANGED <<busMode, registryVars, busReaders>>
    /\ UNCHANGED nonBusVars

\* event.go:143, 151-153, 184-187: a handler returns, nil or an error; sync
\* Emit returns or goes on to the next handler
HandlerReturn(e) ==
    /\ \E k \in emission[e].started \ emission[e].finished, err \in BOOLEAN :
          LET m == emission[e]
              result == IF Sequential(m) THEN SyncResult(m, k, err) ELSE m.result
          IN  /\ emission' = [emission EXCEPT ![e] =
                     [m EXCEPT !.finished = @ \cup {k},
                               !.failed = IF err THEN @ \cup {k} ELSE @,
                               !.result = result]]
              /\ busReaders' = IF result = "none" THEN busReaders ELSE busReaders \ {e}
    /\ UNCHANGED <<busMode, registryVars>>
    /\ UNCHANGED nonBusVars

\* event.go:191-201: the wait of EmitAndWait is over and it returns
EmitAndWaitReturn(e) ==
    /\ emission[e].kind = "EmitAndWait"
    /\ emission[e].result = "none"
    /\ WaitOver(emission[e])
    /\ emission' = [emission EXCEPT ![e].result = EmitAndWaitResult(emission[e])]
    /\ busReaders' = busReaders \ {e}
    /\ UNCHANGED <<busMode, registryVars>>
    /\ UNCHANGED nonBusVars

(***************************************************************************)
(* Auth middleware, internal/middleware/auth.go                            *)
(*                                                                         *)
(* The handler runs from its first line to c.Next() or c.Abort() without   *)
(* a point where another step of the model could change what it reads:     *)
(* one action. The user service and the tenant service are interfaces;     *)
(* what they answer is an input of the request. A pointer is a sequence:   *)
(* empty for nil, one element otherwise. A header is the sequence of the   *)
(* pieces the code takes apart, empty when the header is absent.           *)
(***************************************************************************)
StatusBadRequest == 400
StatusUnauthorized == 401
StatusForbidden == 403

Methods == {"GET", "POST", "OPTIONS"}
Paths == {"/health", "/api/v1/auth/login", "/api/v1/chat"}

\* auth.go:19-24; no entry ends with "*"
noAuthAPI ==
    {[api |-> "/health", methods |-> {"GET"}, prefix |-> FALSE],
     [api |-> "/api/v1/auth/register", methods |-> {"POST"}, prefix |-> FALSE],
     [api |-> "/api/v1/auth/login", methods |-> {"POST"}, prefix |-> FALSE],
     [api |-> "/api/v1/auth/refresh", methods |-> {"POST"}, prefix |-> FALSE]}

\* faulty variant: the method is not compared
isNoAuthAPIAnyMethod(path, method) ==
    \E entry \in noAuthAPI : ~entry.prefix /\ path = entry.api

\* auth.go:27-39; the branch of 30-33 is dead for the four entries
isNoAuthAPI(path, method) ==
    \E entry \in noAuthAPI :
        /\ ~entry.prefix
        /\ path = entry.api
        /\ method \in entry.methods

\* types.User: the fields Auth reads
User(id, tenantID, canAccessAllTenants) ==
    [ID |-> id, TenantID |-> tenantID, CanAccessAllTenants |-> canAccessAllTenants]

Users == {User("a", 1, FALSE), User("b", 1, TRUE), User("c", 2, TRUE)}

\* *config.Config: nil, without Tenant, cross-tenant access off and on
Config(enable) == <<[Tenant |-> <<[EnableCrossTenantAccess |-> enable]>>]>>
AuthConfigs == {<<>>, <<[Tenant |-> <<>>]>>, Config(FALSE), Config(TRUE)}

\* faulty variant: the configuration is not consulted
canAccessTenantOfUser(user, targetTenantID, cfg) == user.CanAccessAllTenants

\* auth.go:42-57
canAccessTenant(user, targetTenantID, cfg) ==
    IF cfg = <<>> \/ cfg[1].Tenant = <<>> \/ ~cfg[1].Tenant[1].EnableCrossTenantAccess
    THEN FALSE
    ELSE IF ~user.CanAccessAllTenants THEN FALSE
    ELSE IF user.TenantID = targetTenantID THEN TRUE
    ELSE TRUE

\* the decimal digits of the headers
DigitValue == [c \in {"0", "1", "2"} |-> CASE c = "0" -> 0 [] c = "1" -> 1 [] c = "2" -> 2]

RECURSIVE DecimalValue(_)
DecimalValue(h) ==
    IF h = <<>> THEN 0
    ELSE 10 * DecimalValue(SubSeq(h, 1, Len(h) - 1)) + DigitValue[h[Len(h)]]

\* auth.go:90: strconv.ParseUint(tenantHeader, 10, 64): digits only, no sign
ParseUint(h) ==
    IF h # <<>> /\ \A i \in 1..Len(h) : h[i] \in DOMAIN DigitValue
    THEN [err |-> FALSE, value |-> DecimalValue(h)]
    ELSE [err |-> TRUE, value |-> 0]

\* the Authorization header: absent, a bearer token, another scheme
AuthHeaders == {<<>>, <<"Bearer ", "t">>, <<"Basic ", "t">>}

\* auth.go:80: authHeader != "" && strings.HasPrefix(authHeader, "Bearer ")
HasBearerPrefix(authHeader) == authHeader # <<>> /\ authHeader[1] = "Bearer "

\* the X-Tenant-ID header, as its characters
TenantHeaders == {<<>>, <<"1">>, <<"2">>, <<"0", "1">>, <<"a">>, <<"-", "1">>}

\* the X-API-Key header: absent, the key of tenant 1, a key that names
\* tenant 1 with another secret, a key that names no tenant
APIKeys == {<<>>, <<"1", "s">>, <<"1", "x">>, <<"?">>}

\* the API key stored with a tenant
StoredAPIKey(tenantID) == IF tenantID = 1 THEN <<"1", "s">> ELSE <<"2", "s">>

\* types.Tenant: the fields Auth reads
Tenant(tenantID) == [ID |-> tenantID, APIKey |-> StoredAPIKey(tenantID)]

\* auth.go:152: tenantService.ExtractTenantIDFromAPIKey
ExtractTenantIDFromAPIKey(apiKey) ==
    IF Len(apiKey) = 2 /\ ParseUint(<<apiKey[1]>>).err = FALSE
    THEN [err |-> FALSE, tenantID |-> ParseUint(<<apiKey[1]>>).value]
    ELSE [err |-> TRUE, tenantID |-> 0]

\* auth.go:82: what userService.ValidateToken answers: an error, no user
\* and no error, a user
ValidateOutcomes ==
    {[err |-> TRUE, user |-> <<>>], [err |-> FALSE, user |-> <<>>]}
        \cup {[err |-> FALSE, user |-> <<u>>] : u \in Users}

\* auth.go:95, 120, 162: what tenantService.GetTenantByID answers: an
\* error, no tenant and no error, the tenant
LookupOutcomes == {"error", "nil", "found"}

GetTenantByID(outcome, tenantID) ==
    [err |-> outcome = "error",
     tenant |-> IF outcome = "found" THEN <<Tenant(tenantID)>> ELSE <<>>]

Requests ==
    [method : Methods, path : Paths, authorization : AuthHeaders,
     tenantHeader : TenantHeaders, apiKey : APIKeys]

\* the answers of the services to one request: ValidateToken, the lookup
\* of the target tenant, the lookup of the tenant of the context
Answers == [validate : ValidateOutcomes, target : LookupOutcomes, tenant : LookupOutcomes]

\* c.Next()
Passed(ctx) == [next |-> TRUE, aborted |-> FALSE, response |-> <<>>, ctx |-> ctx]

\* c.JSON(status, ...); c.Abort()
Aborted(status) == [next |-> FALSE, aborted |-> TRUE, response |-> <<status>>, ctx |-> <<>>]

\* auth.go:131-142, 181-188: what is stored in the context
Context(tenantID, tenant, user) == <<[tenantID |-> tenantID, tenant |-> tenant, user |-> user]>>

\* auth.go:119-144: the tenant of a validated user
BearerTenant(user, targetTenantID, answers) ==
    LET found == GetTenantByID(answers.tenant, targetTenantID)
    IN  IF found.err THEN Aborted(StatusUnauthorized)
        ELSE Passed(Context(targetTenantID, found.tenant, <<user>>))

\* auth.go:86-117: the target tenant of a validated user
BearerTarget(user, req, cfg, answers) ==
    LET parsed == ParseUint(req.tenantHeader)
        target == GetTenantByID(answers.target, parsed.value)
    IN  IF req.tenantHeader = <<>> \/ parsed.err
        THEN BearerTenant(user, user.TenantID, answers)
        ELSE IF ~canAccessTenant(user, parsed.value, cfg) THEN Aborted(StatusForbidden)
        ELSE IF ~target.err /\ target.tenant # <<>>
        THEN BearerTenant(user, parsed.value, answers)
        ELSE Aborted(StatusBadRequest)

\* auth.go:148-195
APIKeyAuth(req, answers) ==
    LET extracted == ExtractTenantIDFromAPIKey(req.apiKey)
        t == GetTenantByID(answers.tenant, extracted.tenantID)
    IN  IF req.apiKey = <<>> THEN Aborted(StatusUnauthorized)
        ELSE IF extracted.err THEN Aborted(StatusUnauthorized)
        ELSE IF t.err THEN Aborted(StatusUnauthorized)
        ELSE IF t.tenant = <<>> \/ t.tenant[1].APIKey # req.apiKey
        THEN Aborted(StatusUnauthorized)
        ELSE Passed(Context(extracted.tenantID, t.tenant, <<>>))

\* auth.go:65-196
AuthHandler(req, cfg, answers) ==
    IF req.method = "OPTIONS" THEN Passed(<<>>)
    ELSE IF isNoAuthAPI(req.path, req.method) THEN Passed(<<>>)
    ELSE IF /\ HasBearerPrefix(req.authorization)
            /\ ~answers.validate.err
            /\ answers.validate.user # <<>>
    THEN BearerTarget(answers.validate.user[1], req, cfg, answers)
    ELSE APIKeyAuth(req, answers)

\* no request yet
InitAuth ==
    /\ authIn = <<>>
    /\ authOut = <<>>

\* one request through the middleware; Auth keeps nothing from one request
\* to the next, so a behaviour has one request
Auth ==
    /\ authIn = <<>>
    /\ \E req \in Requests, cfg \in AuthConfigs, answers \in Answers :
          /\ authIn' = <<[req |-> req, cfg |-> cfg, answers |-> answers]>>
          /\ authOut' = <<AuthHandler(req, cfg, answers)>>
    /\ UNCHANGED nonAuthVars

(***************************************************************************)
(* Specifications                                                          *)
(***************************************************************************)
InitBuild == InitRequest /\ InitNewChat

Init == InitStream /\ InitChat /\ InitPair /\ InitBuild /\ InitBus /\ InitAuth /\ watch = "calls"

\* the same calls in a run that observes the order of the contents
InitOrder ==
    InitStream /\ InitChat /\ InitPair /\ InitBuild /\ InitBus /\ InitAuth /\ watch = "order"

\* the worker and a consumer that receives until the channel is closed
Next ==
    \/ RemoteChatStream
    \/ OllamaChatStream
    \/ RecvError
    \/ RecvChunk
    \/ ProcessToolCall
    \/ EndOfToolCalls
    \/ RemoteDeliver
    \/ OllamaCallback
    \/ OllamaReturn
    \/ OllamaDeliver

Spec == Init /\ [][Next]_vars

\* the same with a consumer that may stop receiving and a caller that may
\* cancel the context
NextCancel == Next \/ ConsumerStop \/ Cancel

SpecCancel == Init /\ [][NextCancel]_vars

SpecOrder == InitOrder /\ [][Next]_vars

\* two calls on one adapter, their workers interleaved
NextPair ==
    \E c \in Calls : PairStart(c) \/ PairDelta(c) \/ PairEnd(c)

SpecPair == Init /\ [][NextPair]_vars

\* one call whose stream carries fragments with and without index, id and
\* type
NextFragments ==
    \/ PairStart(1)
    \/ FragmentDelta
    \/ PairEnd(1)

SpecFragments == Init /\ [][NextFragments]_vars

\* the calls of the local adapter, streaming and not
NextOllama ==
    \/ OllamaChatStream
    \/ OllamaCallback
    \/ OllamaReturn
    \/ OllamaDeliver
    \/ OllamaChat
    \/ OllamaChatCallback
    \/ OllamaChatReturn

SpecOllama == Init /\ [][NextOllama]_vars

\* construction of an adapter and the requests of the remote adapter
NextBuild ==
    \/ NewChatCall
    \/ ChatRequest
    \/ ChatStreamRequest
    \/ OllamaRequest

SpecBuild == Init /\ [][NextBuild]_vars

\* a bus, the calls that change its registry and two emitters
NextBus ==
    \/ NewEventBus
    \/ NewAsyncEventBus
    \/ \E t \in EventTypes : On(t)
    \/ \E t \in EventTypes : Off(t)
    \/ Clear
    \/ \E e \in Emitters : Emit(e)
    \/ \E e \in Emitters : EmitAndWait(e)
    \/ \E e \in Emitters : HandlerStart(e)
    \/ \E e \in Emitters : HandlerReturn(e)
    \/ \E e \in Emitters : EmitAndWaitReturn(e)

SpecBus == Init /\ [][NextBus]_vars

\* requests through the Auth middleware
NextAuth == Auth

SpecAuth == Init /\ [][NextAuth]_vars

\* one non-streaming call
NextChat ==
    \/ RemoteChat
    \/ chatWithQwen
    \/ OllamaChat
    \/ OllamaChatCallback
    \/ OllamaChatReturn

SpecChat == Init /\ [][NextChat]_vars

(***************************************************************************)
(* Properties of the streaming calls                                       *)
(***************************************************************************)
\* the answer events the worker is sending
Sending == {out[n] : n \in 1..Len(out)}

\* the snapshot of an event holds the entries of toolCallMap at its indices
SnapshotOf(e) ==
    /\ Len(e.ToolCalls) = Len(e.indices)
    /\ \A j \in 1..Len(e.indices) : e.ToolCalls[j] = ToolCallOf(toolCallMap[e.indices[j]])

\* the worker can take a step
WorkerProgress ==
    \/ RecvError \/ RecvChunk \/ ProcessToolCall \/ EndOfToolCalls \/ RemoteDeliver
    \/ OllamaCallback \/ OllamaReturn \/ OllamaDeliver

\* C1: when the channel of a remote stream is closed, the consumer, which
\* received every event, has received exactly one event with done = true.
C1_ExactlyOneDone ==
    (adapter = "remote" /\ pc = "closed") => doneCount = 1

\* every accumulator entry, and every entry of a snapshot the worker sends,
\* carries the name fragments and the arguments fragments of its index
\* concatenated in arrival order
AccumulationCorrect ==
    /\ \A i \in Indices :
          toolCallMap[i].present =>
             /\ toolCallMap[i].Name = catName[i]
             /\ toolCallMap[i].Arguments = catArgs[i]
    /\ \A e \in Sending :
          e.ResponseType = "answer" =>
             /\ Len(e.ToolCalls) = Len(e.indices)
             /\ \A j \in 1..Len(e.indices) :
                   /\ e.ToolCalls[j].Name = catName[e.indices[j]]
                   /\ e.ToolCalls[j].Arguments = catArgs[e.indices[j]]

\* C2: for every index that has received a name or an arguments fragment, the
\* final snapshot has the entry of that index, whose function name is the
\* concatenation in arrival order of the name fragments addressed to the index
\* and whose arguments are the concatenation of its arguments fragments.
C2_FinalSnapshotConcatenation ==
    pc = "sendFinal" =>
       \A i \in Indices :
          (catName[i] # "" \/ catArgs[i] # "") =>
             \E j \in 1..Len(out[1].indices) :
                /\ out[1].indices[j] = i
                /\ out[1].ToolCalls[j].Name = catName[i]
                /\ out[1].ToolCalls[j].Arguments = catArgs[i]

\* C3: for each index at most one tool_call event is emitted over the stream.
C3_AtMostOneNotification ==
    \A i \in Indices : notifs[i] <= 1

\* a notification for index 0 was received, and index 0 got arguments in two
\* more fragments after its name
C3_Witness ==
    /\ notifs[0] = 1
    /\ nameNotified[0]
    /\ nDeltas = MaxDeltas
    /\ ~toolCallMap[1].present
    /\ catName[0] = "a"
    /\ catArgs[0] = "xy"

\* C4: processing a fragment for index i emits a tool_call event if and only
\* if the accumulated name is non-empty and equal to the name accumulated
\* after the previous fragment for i, the fragment carried arguments, no
\* notification was sent for i before, and the entry's id is non-empty; the
\* event carries the accumulated name and the id, with done = false.
C4_NotificationRule ==
    [][ (pc = "tc" /\ nDeltas' = nDeltas + 1) =>
          \A i \in Indices :
             LET emitted == /\ pc' = "notify"
                            /\ out' # <<>>
                            /\ out'[1].ResponseType = "tool_call"
                            /\ out'[1].indices = <<i>>
                 holds   == /\ catArgs'[i] # catArgs[i]
                            /\ catName'[i] # ""
                            /\ catName'[i] = catName[i]
                            /\ notifs[i] = 0
                            /\ toolCallMap'[i].ID # ""
             IN  /\ emitted <=> holds
                 /\ emitted =>
                       out'[1] = [ResponseType |-> "tool_call", Content |-> "",
                                  Done |-> FALSE, ToolCalls |-> <<>>,
                                  Data |-> [tool_name |-> catName'[i],
                                            tool_call_id |-> toolCallMap'[i].ID],
                                  indices |-> <<i>>]
      ]_vars

\* the worker sends the notification of a call whose name came in two
\* fragments
C4_Witness ==
    /\ pc = "notify"
    /\ out[1].Data = [tool_name |-> "ab", tool_call_id |-> "c1"]

\* every error of stream.Recv makes the worker send one event with
\* done = true, empty content and the result of buildOrderedToolCalls; the
\* consumer receives it as the last event, the channel is closed, and
\* ChatStream has returned no error
FinalEventOnTransportEnd ==
    [][ /\ (pc = "recv" /\ pc' \notin {"recv", "tc"}) =>
              /\ pc' = "sendFinal"
              /\ out' = <<StreamResponse("answer", "", TRUE, buildOrderedToolCalls(toolCallMap),
                                         NoData, buildOrderedIndices(toolCallMap))>>
        /\ (pc = "sendFinal" /\ pc' # "sendFinal") =>
              /\ pc' = "closed"
              /\ out' = <<>>
        /\ (adapter = "remote" /\ pc' = "closed") =>
              /\ last' = [ResponseType |-> "answer", Done |-> TRUE]
              /\ ret' = [ch |-> "streamChan", err |-> FALSE]
      ]_vars

\* the keys of everything accumulated, ascending
RECURSIVE PresentFrom(_, _)
PresentFrom(i, m) ==
    IF \A j \in Indices : j < i THEN <<>>
    ELSE (IF i \in Indices /\ m[i].present THEN <<i>> ELSE <<>>) \o PresentFrom(i + 1, m)

\* C5: the event the worker sends when stream.Recv has returned an error has
\* done = true, empty content and as tool_calls everything accumulated, and
\* once the channel of a remote stream is closed the last event the consumer
\* received is that event and ChatStream has returned no error.
C5_FinalEventCarriesAllAccumulated ==
    /\ pc = "sendFinal" =>
          LET ix == PresentFrom(0, toolCallMap)
          IN  out = <<StreamResponse("answer", "", TRUE,
                                     [j \in 1..Len(ix) |-> ToolCallOf(toolCallMap[ix[j]])],
                                     NoData, ix)>>
    /\ (adapter = "remote" /\ pc = "closed") =>
          /\ last = [ResponseType |-> "answer", Done |-> TRUE]
          /\ ret = [ch |-> "streamChan", err |-> FALSE]

\* C6: the snapshot of every event lists the entries in strictly ascending
\* index order, no index twice.
C6_SnapshotOrdered ==
    \A e \in Sending :
       e.ResponseType = "answer" =>
          /\ SnapshotOf(e)
          /\ \A a, b \in 1..Len(e.indices) : a < b => e.indices[a] < e.indices[b]

\* an event carries the entries of index 0 and 1; the first fragment of the
\* stream was for index 1, before the two name fragments of index 0
C6_Witness ==
    /\ out # <<>>
    /\ out[1].ResponseType = "answer"
    /\ out[1].indices = <<0, 1>>
    /\ firstIndex = 1
    /\ catName[0] = "ab"

\* C7: the snapshot of every event has one entry for every index that has
\* received a delta.
C7_SnapshotComplete ==
    \A e \in Sending :
       e.ResponseType = "answer" =>
          {e.indices[j] : j \in 1..Len(e.indices)} = {i \in Indices : toolCallMap[i].present}

\* C8: once the context is cancelled, the worker is never stuck before it has
\* closed its channel.
C8_CancelledWorkerCloses ==
    (pc # "none" /\ cancelled) => (pc = "closed" \/ ENABLED WorkerProgress)

\* C9: when the step before the stream fails, ChatStream returns a nil channel
\* and an error, no worker runs and no event is sent or received.
C9_PreStreamFailure ==
    preErr =>
       /\ ret = [ch |-> "nil", err |-> TRUE]
       /\ pc = "none"
       /\ out = <<>>
       /\ last = NoLast
       /\ doneCount = 0

\* creating the remote completion stream failed
C9_Witness ==
    /\ adapter = "remote"
    /\ preErr
    /\ ret.err

C12_OllamaExactlyOneDone ==
    (adapter = "ollama" /\ pc = "closed") => doneCount = 1

\* the content of the event the worker is sending, if it has one
Pending ==
    IF out # <<>> /\ out[1].ResponseType = "answer" /\ out[1].Content # ""
    THEN <<out[1].Content>>
    ELSE <<>>

\* C13: the non-empty contents of the answer events the consumer has received,
\* followed by the content of the event the worker is sending, are the
\* contents the transport has produced, in the order it produced them: none
\* is lost, reordered, merged or sent twice.
C13_ContentsInOrder ==
    produced = received \o Pending

\* the stream of the remote adapter is closed, the consumer has received the
\* contents i and h in that order and a tool_call notification
C13_Witness ==
    /\ adapter = "remote"
    /\ pc = "closed"
    /\ produced = <<"i", "h">>
    /\ received = <<"i", "h">>
    /\ notifs[0] = 1

\* the positions at which the worker is blocked in a send on streamChan
SendPositions ==
    {"notify", "sendContent", "sendToolDone", "sendFinal",
     "osendContent", "osendDone", "osendErr"}

\* C14: at most one event is produced and not yet accepted by the consumer,
\* the worker is then blocked in its send, and whenever the worker is at the
\* transport read or between two sends no event is outstanding.
C14_Backpressure ==
    /\ Len(out) <= 1
    /\ out # <<>> <=> pc \in SendPositions
    /\ pc \in {"recv", "tc", "ocall"} => out = <<>>

\* the worker is blocked sending a content that the consumer has not accepted,
\* while the provider has more to send
C14_Witness ==
    /\ pc = "sendContent"
    /\ Len(out) = 1
    /\ ~out[1].Done
    /\ doneCount = 0
    /\ nDeltas = 1

(***************************************************************************)
(* Properties of concurrent calls                                          *)
(***************************************************************************)
\* a worker running alone on the deltas ds: its maps and its events
RECURSIVE RunAlone(_)
RunAlone(ds) ==
    IF ds = <<>> THEN [locals |-> NewLocals, events |-> <<>>]
    ELSE LET before == RunAlone(SubSeq(ds, 1, Len(ds) - 1))
             r      == StepDelta(before.locals, ds[Len(ds)])
         IN  [locals |-> r.locals, events |-> before.events \o r.events]

\* the events of a call alone, up to its final event when it is over
EventsAlone(ds, over) ==
    LET r == RunAlone(ds)
    IN  r.events \o (IF over THEN <<FinalEvent(r.locals.toolCallMap)>> ELSE <<>>)

\* C15: with two calls running concurrently on one adapter, the events each
\* worker has sent, and the maps it works on, are those of the same worker
\* running alone on the deltas of its own stream.
C15_CallsIndependent ==
    \A c \in Calls :
       pairPc[c] # "none" =>
          /\ pairEvents[c] = EventsAlone(pairDeltas[c], pairPc[c] = "closed")
          /\ pairLocals[Locals(c)] = RunAlone(pairDeltas[c]).locals

\* both workers are running and each has processed two deltas of its own
\* stream: the first has sent its notification, the second has accumulated
\* the name ab and has sent nothing
C15_Witness ==
    /\ \A c \in Calls : pairPc[c] = "recv" /\ Len(pairDeltas[c]) = 2
    /\ Len(pairEvents[1]) = 1
    /\ pairEvents[1][1].ResponseType = "tool_call"
    /\ pairLocals[2].toolCallMap[0].Name = "ab"
    /\ pairEvents[2] = <<>>

(***************************************************************************)
(* Properties of the non-streaming calls                                   *)
(***************************************************************************)
\* the call has failed: the local model is unavailable, the transport failed,
\* the status is not a success, the body cannot be decoded, or there is no
\* choice in the response
ChatFailed ==
    CASE chatCall = "remote" ->
            chatIn.createErr # "" \/ Len(chatIn.resp.Choices) = 0
      [] chatCall = "qwen" ->
            \/ ~chatIn.marshalOk \/ ~chatIn.requestOk \/ ~chatIn.sendOk
            \/ chatIn.status # StatusOK
            \/ ~chatIn.bodyOk
            \/ Len(chatIn.resp.Choices) = 0
      [] chatCall = "ollama" ->
            ~chatIn.ensureOk \/ chatIn.err
      [] OTHER -> FALSE

\* C10: a Chat that failed has returned a nil response and a non-nil error,
\* and a Chat that did not fail a non-nil response and a nil error.
C10_FailedChatReturnsNoResponse ==
    chatPc = "returned" =>
       IF ChatFailed
       THEN chatRes.resp = <<>> /\ chatRes.err # ""
       ELSE Len(chatRes.resp) = 1 /\ chatRes.err = ""

\* the qwen3 provider answered with another status than 200 and a well-formed
\* body with choices
C10_Witness ==
    /\ chatCall = "qwen"
    /\ chatPc = "returned"
    /\ chatIn.marshalOk /\ chatIn.requestOk /\ chatIn.sendOk
    /\ chatIn.status # StatusOK
    /\ chatIn.bodyOk
    /\ Len(chatIn.resp.Choices) > 0
    /\ chatRes.resp = <<>>

(***************************************************************************)
(* Properties of the local adapter                                         *)
(***************************************************************************)
\* C20: Chat and ChatStream of the local adapter invoke EnsureModelAvailable
\* first and once; when it fails the call returns its error, no chat request
\* is issued to the runtime and no worker is started; the chat request is
\* issued only after it succeeded.
C20_EnsureModelFirst ==
    /\ adapter = "ollama" =>
          /\ runtimeOps # <<>>
          /\ runtimeOps[1] = "EnsureModelAvailable"
          /\ \A k \in 2..Len(runtimeOps) : runtimeOps[k] = "Chat"
          /\ IF preErr
             THEN /\ runtimeOps = <<"EnsureModelAvailable">>
                  /\ ret = [ch |-> "nil", err |-> TRUE]
                  /\ pc = "none"
                  /\ out = <<>>
             ELSE Len(runtimeOps) = 2
    /\ chatCall = "ollama" =>
          /\ chatOps # <<>>
          /\ chatOps[1] = "EnsureModelAvailable"
          /\ \A k \in 2..Len(chatOps) : chatOps[k] = "Chat"
          /\ IF ~chatIn.ensureOk
             THEN /\ chatOps = <<"EnsureModelAvailable">>
                  /\ chatPc = "returned"
                  /\ chatRes = [resp |-> <<>>, err |-> "ensure model available"]
                  /\ chatIn.callbacks = <<>>
             ELSE Len(chatOps) = 2

\* the model could be ensured neither for a Chat nor for a ChatStream
C20_Witness ==
    /\ adapter = "ollama"
    /\ preErr
    /\ chatCall = "ollama"
    /\ ~chatIn.ensureOk
    /\ chatRes.err # ""

(***************************************************************************)
(* Properties of construction and request building                         *)
(***************************************************************************)
\* the model names whose letters, whatever their case, spell deepseek
\* somewhere
FamilyD == {NameDeepSeekChat, NameDeepSeekV3, NameMyDeepSeek, NameQwen3DeepSeek}

\* the adapter of a request is of family Q: the name starts with qwen3- and
\* the endpoint is the compatible mode of dashscope
FamilyQ ==
    /\ reqCfg.modelName \in {NameQwen3, NameQwen3DeepSeek}
    /\ reqCfg.baseURL = "https://dashscope.aliyuncs.com/compatible-mode/v1"

\* C16: a request, streaming or not, built for a model of family D from
\* options with a non-empty tool_choice has no tool_choice set.
C16_DeepSeekOmitsToolChoice ==
    (/\ reqOut # NoRequest
     /\ reqCfg.modelName \in FamilyD
     /\ ~reqOpts.isNil
     /\ reqOpts.ToolChoice # "") =>
        reqOut.req.ToolChoice = [kind |-> "unset", value |-> ""]

\* a streaming request for DeepSeek-V3 with a tool and the tool's name as
\* tool_choice: the tool is in the request, tool_choice is not
C16_Witness ==
    /\ reqOut # NoRequest
    /\ reqOut.call = "ChatStream"
    /\ reqCfg.modelName = NameDeepSeekV3
    /\ ~reqOpts.isNil
    /\ reqOpts.ToolChoice = "get_weather"
    /\ Len(reqOut.req.Tools) = 1
    /\ reqOut.req.ToolChoice.kind = "unset"

\* C17: for an adapter of family Q, the request of a non-streaming Chat goes
\* the raw HTTP way and has the top-level enable_thinking set to false,
\* whatever the caller's thinking option; the request of ChatStream has the
\* top-level field unset.
C17_QwenTopLevelThinking ==
    (reqOut # NoRequest /\ FamilyQ) =>
        IF reqOut.call = "Chat"
        THEN /\ reqOut.route = "http.Client.Do"
             /\ reqOut.req.EnableThinking = <<FALSE>>
             /\ ~reqOut.req.Stream
        ELSE /\ reqOut.call = "ChatStream"
             /\ reqOut.req.EnableThinking = <<>>
             /\ reqOut.req.Stream

\* a non-streaming Chat of qwen3-8b on dashscope whose caller asked for
\* thinking
C17_Witness ==
    /\ reqOut # NoRequest
    /\ reqOut.call = "Chat"
    /\ reqCfg.modelName = NameQwen3
    /\ FamilyQ
    /\ reqOpts.Thinking = <<TRUE>>
    /\ reqOut.req.EnableThinking = <<FALSE>>

\* C18: for an adapter of family Q, the request of a non-streaming Chat has
\* the same thinking fields as the request built from the same options with
\* any other thinking value, and both fields, the top-level enable_thinking
\* and chat_template_kwargs.enable_thinking, say false.
C18_QwenThinkingIndependentOfCaller ==
    (reqOut # NoRequest /\ reqOut.call = "Chat" /\ FamilyQ /\ ~reqOpts.isNil) =>
        /\ reqOut.req.EnableThinking = <<FALSE>>
        /\ reqOut.req.ChatTemplateKwargs.enable_thinking = FALSE
        /\ \A t \in {<<>>, <<TRUE>>, <<FALSE>>} :
              LET other == ChatRequestOf(reqCfg, reqMsgs, [reqOpts EXCEPT !.Thinking = t]).req
              IN  /\ other.EnableThinking = reqOut.req.EnableThinking
                  /\ other.ChatTemplateKwargs = reqOut.req.ChatTemplateKwargs

\* C19: NewChat with a source that spells local in any case returns the
\* OllamaChat adapter and no error, with a source that spells remote the
\* RemoteAPIChat adapter and no error, and with any other source no adapter
\* and the unsupported-source error.
C19_NewChatSelectsBySource ==
    newChatOut # NotConstructed =>
        IF newChatIn.source \in {<<"l", "o", "c", "a", "l">>, <<"L", "O", "C", "A", "L">>}
        THEN newChatOut = [chat |-> "OllamaChat", err |-> ""]
        ELSE IF newChatIn.source \in {<<"r", "e", "m", "o", "t", "e">>, <<"R", "e", "m", "o", "t", "e">>}
        THEN newChatOut = [chat |-> "RemoteAPIChat", err |-> ""]
        ELSE newChatOut = [chat |-> "nil", err |-> "unsupported chat model source"]


\* the request is one of the remote adapter
RemoteRequest == reqOut # NoRequest /\ reqOut.call \in {"Chat", "ChatStream"}

\* the request is one of the local adapter
LocalRequest == reqOut # NoRequest /\ reqOut.call \in {"OllamaChat", "OllamaChatStream"}

\* the numeric options of the caller, all zero when the options are absent
CallerNumerics == IF reqOpts.isNil THEN NoNumerics ELSE reqOpts.Numeric

\* C21: each numeric option is in the outgoing request with the caller's
\* value exactly when the caller set it to a value that is not zero, and is
\* unset when it is zero or the options are absent: the six options of the
\* remote adapter (an unset field is 0) and the three of the local adapter
\* (an unset option has no key in the Options map).
C21_NumericOptionsForwarded ==
    /\ RemoteRequest =>
           \A f \in {"Temperature", "TopP", "MaxTokens", "MaxCompletionTokens",
                     "FrequencyPenalty", "PresencePenalty"} :
               reqOut.req[f] = CallerNumerics[f]
    /\ LocalRequest =>
           /\ ("temperature" \in DOMAIN reqOut.req.Options) = (CallerNumerics.Temperature # 0)
           /\ ("top_p" \in DOMAIN reqOut.req.Options) = (CallerNumerics.TopP # 0)
           /\ ("num_predict" \in DOMAIN reqOut.req.Options) = (CallerNumerics.MaxTokens # 0)
           /\ "temperature" \in DOMAIN reqOut.req.Options =>
                  reqOut.req.Options["temperature"] = CallerNumerics.Temperature
           /\ "top_p" \in DOMAIN reqOut.req.Options =>
                  reqOut.req.Options["top_p"] = CallerNumerics.TopP
           /\ "num_predict" \in DOMAIN reqOut.req.Options =>
                  reqOut.req.Options["num_predict"] = CallerNumerics.MaxTokens


\* C22: the messages of a request of the remote adapter are as many as the
\* caller's and in the same order, and each has the role, the content and
\* the tool calls (id, type, function name, arguments, in order) of the
\* caller's message, so that reading them back gives the caller's role,
\* content and tool_calls.
C22_MessagesPreserved ==
    RemoteRequest =>
        /\ Len(reqOut.req.Messages) = Len(reqMsgs)
        /\ \A k \in 1..Len(reqMsgs) :
              LET wire == reqOut.req.Messages[k]
                  back == [Role |-> wire.Role, Content |-> wire.Content,
                           ToolCalls |-> [j \in 1..Len(wire.ToolCalls) |->
                               [ID |-> wire.ToolCalls[j].ID,
                                Type |-> wire.ToolCalls[j].Type,
                                Function |-> [Name |-> wire.ToolCalls[j].Function.Name,
                                              Arguments |-> wire.ToolCalls[j].Function.Arguments]]]]
              IN  /\ back.Role = reqMsgs[k].Role
                  /\ back.Content = reqMsgs[k].Content
                  /\ back.ToolCalls = reqMsgs[k].ToolCalls

\* a request of two messages: an assistant message with content and a tool
\* call, then the message of the tool
C22_Witness ==
    /\ RemoteRequest
    /\ Len(reqMsgs) = 2
    /\ reqMsgs[1].Role = "assistant"
    /\ reqMsgs[1].Content = "let me check"
    /\ Len(reqMsgs[1].ToolCalls) = 1
    /\ reqMsgs[2].Role = "tool"
    /\ reqOut.req.Messages[1].ToolCalls[1].ID = "c2"
    /\ reqOut.req.Messages[2].ToolCallID = "c1"


\* C23: the remote worker emits one answer event for each response whose
\* content is not empty, and none with content for the others: the contents
\* received and in flight are as many as the contents produced; the event
\* has the content of the response, done says whether the response has a
\* finish reason, and the snapshot has the entry of every index for which a
\* fragment has arrived, those of the same response included.
C23_ContentEvent ==
    adapter = "remote" =>
        /\ Len(produced) = Len(received) + Len(Pending)
        /\ (out # <<>> /\ out[1].Content # "") => pc = "sendContent"
        /\ pc = "sendContent" =>
              /\ out # <<>>
              /\ out[1].ResponseType = "answer"
              /\ produced # <<>>
              /\ out[1].Content = produced[Len(produced)]
              /\ out[1].Done = chunk.isDone
              /\ \A i \in Indices :
                    catName[i] \o catArgs[i] # "" =>
                        \E j \in 1..Len(out[1].ToolCalls) :
                            /\ out[1].indices[j] = i
                            /\ out[1].ToolCalls[j].Name = catName[i]
                            /\ out[1].ToolCalls[j].Arguments = catArgs[i]


\* the positions of the fragments of a stream that are about index i: those
\* that carry i and, for index 0, those that carry no index
FragmentsOf(ds, i) ==
    {k \in 1..Len(ds) : ds[k].Index = i \/ (i = 0 /\ ds[k].Index = -1)}

\* the value of a field in the last fragment of a set of positions that
\* carries one, empty when none does
LatestOf(ds, ks, field) ==
    LET set == {k \in ks : ds[k][field] # ""}
    IN  IF set = {} THEN ""
        ELSE ds[CHOOSE k \in set : \A j \in set : j <= k][field]

\* C24: in the accumulator a fragment with no index is applied to index 0;
\* the id and the type of an entry are those of the latest fragment for its
\* index that carried a non-empty one (a fragment with an empty id or type
\* leaves the stored one unchanged), and an index has an entry exactly when
\* a fragment for it has arrived.
C24_IndexIdTypeRule ==
    \A i \in Indices :
        LET ds == pairDeltas[1]
            e  == pairLocals[1].toolCallMap[i]
        IN  /\ e.present = (FragmentsOf(ds, i) # {})
            /\ e.ID = LatestOf(ds, FragmentsOf(ds, i), "ID")
            /\ e.Type = LatestOf(ds, FragmentsOf(ds, i), "Type")

\* a fragment without index with id c1 and type function, then a fragment
\* with id c2 and no type: the entry of index 0 has id c2 and type function
C24_Witness ==
    /\ Len(pairDeltas[1]) = 2
    /\ pairDeltas[1][1] = [Index |-> -1, ID |-> "c1", Type |-> "function", Name |-> "", Arguments |-> ""]
    /\ pairDeltas[1][2].ID = "c2"
    /\ pairDeltas[1][2].Type = ""
    /\ pairLocals[1].toolCallMap[0].ID = "c2"
    /\ pairLocals[1].toolCallMap[0].Type = "function"
    /\ ~pairLocals[1].toolCallMap[1].present


\* the model names in which no letters spell deepseek
OutsideFamilyD == {NameQwen3, NameQwen3Upper, NameQwen2, NameGpt}

\* C25: in a request built for a model outside family D, tool_choice is the
\* string auto, required or none when the caller's is that value, the
\* named-tool directive {type: function, function.name: V} when the caller's
\* is any other non-empty value V, and unset when the caller's is empty or
\* the options are absent.
C25_ToolChoiceVerbatim ==
    (RemoteRequest /\ reqCfg.modelName \in OutsideFamilyD) =>
        LET v == IF reqOpts.isNil THEN "" ELSE reqOpts.ToolChoice
        IN  reqOut.req.ToolChoice =
                IF v = "" THEN [kind |-> "unset", value |-> ""]
                ELSE IF v = "auto" THEN [kind |-> "string", value |-> "auto"]
                ELSE IF v = "required" THEN [kind |-> "string", value |-> "required"]
                ELSE IF v = "none" THEN [kind |-> "string", value |-> "none"]
                ELSE [kind |-> "function", value |-> v]

\* a streaming request for qwen3-8b with the name of a tool as tool_choice
C25_Witness ==
    /\ RemoteRequest
    /\ reqOut.call = "ChatStream"
    /\ reqCfg.modelName = NameQwen3
    /\ ~reqOpts.isNil
    /\ reqOpts.ToolChoice = "get_weather"
    /\ reqOut.req.ToolChoice = [kind |-> "function", value |-> "get_weather"]


\* C26: every request of the remote adapter, streaming or not, for every
\* model and endpoint, with or without options, has the field
\* chat_template_kwargs.enable_thinking: true when the caller's thinking
\* option is set to true, false when it is set to false, unset, or the
\* options are absent.
C26_ChatTemplateKwargs ==
    RemoteRequest =>
        /\ DOMAIN reqOut.req.ChatTemplateKwargs = {"enable_thinking"}
        /\ reqOut.req.ChatTemplateKwargs.enable_thinking
              = (~reqOpts.isNil /\ reqOpts.Thinking = <<TRUE>>)

\* a streaming request for deepseek-chat whose caller asked for thinking
C26_Witness ==
    /\ RemoteRequest
    /\ reqOut.call = "ChatStream"
    /\ reqCfg.modelName = NameDeepSeekChat
    /\ reqOpts.Thinking = <<TRUE>>
    /\ reqOut.req.ChatTemplateKwargs.enable_thinking


(***************************************************************************)
(* Properties of the non-streaming calls                                   *)
(***************************************************************************)
\* C27: the raw HTTP call for family Q returns the error of the first stage
\* that fails, in the order marshalling, construction of the request, send,
\* status other than 200, decoding of the body, no choices, and no response
\* with it: a status other than 200 is an error whatever the body; when no
\* stage fails the response is made of the first choice, its tool calls
\* translated one to one in order.
C27_QwenStages ==
    (chatCall = "qwen" /\ chatPc = "returned") =>
        LET sent == chatIn.marshalOk /\ chatIn.requestOk /\ chatIn.sendOk
            ok200 == sent /\ chatIn.status = 200
            first == chatIn.resp.Choices[1]
        IN  /\ ~chatIn.marshalOk => chatRes.err = "marshal request"
            /\ (chatIn.marshalOk /\ ~chatIn.requestOk) => chatRes.err = "create request"
            /\ (chatIn.marshalOk /\ chatIn.requestOk /\ ~chatIn.sendOk) =>
                   chatRes.err = "send request"
            /\ (sent /\ chatIn.status # 200) =>
                   chatRes.err = "API request failed with status"
            /\ (ok200 /\ ~chatIn.bodyOk) => chatRes.err = "decode response"
            /\ (ok200 /\ chatIn.bodyOk /\ Len(chatIn.resp.Choices) = 0) =>
                   chatRes.err = "no response from API"
            /\ chatRes.err # "" => chatRes.resp = <<>>
            /\ (ok200 /\ chatIn.bodyOk /\ Len(chatIn.resp.Choices) > 0) =>
                   /\ chatRes.err = ""
                   /\ Len(chatRes.resp) = 1
                   /\ chatRes.resp[1].Content = first.Content
                   /\ chatRes.resp[1].FinishReason = first.FinishReason
                   /\ Len(chatRes.resp[1].ToolCalls) = Len(first.ToolCalls)
                   /\ \A j \in 1..Len(first.ToolCalls) :
                         /\ chatRes.resp[1].ToolCalls[j].ID = first.ToolCalls[j].ID
                         /\ chatRes.resp[1].ToolCalls[j].Type = first.ToolCalls[j].Type
                         /\ chatRes.resp[1].ToolCalls[j].Function.Name = first.ToolCalls[j].Name
                         /\ chatRes.resp[1].ToolCalls[j].Function.Arguments
                               = first.ToolCalls[j].Arguments

\* the qwen3 provider answered with another status than 200 and a body
\* that cannot be decoded: the error is the one of the status
C27_Witness ==
    /\ chatCall = "qwen"
    /\ chatPc = "returned"
    /\ chatIn.marshalOk /\ chatIn.requestOk /\ chatIn.sendOk
    /\ chatIn.status # 200
    /\ ~chatIn.bodyOk
    /\ chatRes.err = "API request failed with status"


\* C28: a Chat of the local adapter that succeeded reports the usage of the
\* last callback invocation whose eval count was greater than zero:
\* prompt_tokens is its prompt eval count, completion_tokens its eval count
\* less its prompt eval count, total_tokens their sum; the three are zero
\* when no invocation had an eval count; the content is that of the last
\* invocation.
C28_OllamaUsage ==
    (chatCall = "ollama" /\ chatPc = "returned" /\ chatRes.err = "") =>
        LET cbs     == chatIn.callbacks
            counted == {k \in 1..Len(cbs) : cbs[k].EvalCount > 0}
            lastOf  == CHOOSE k \in counted : \A j \in counted : j <= k
            usage   == chatRes.resp[1].Usage
        IN  /\ Len(chatRes.resp) = 1
            /\ chatRes.resp[1].Content = IF cbs = <<>> THEN "" ELSE cbs[Len(cbs)].Content
            /\ IF counted = {}
               THEN usage = [PromptTokens |-> 0, CompletionTokens |-> 0, TotalTokens |-> 0]
               ELSE /\ usage.PromptTokens = cbs[lastOf].PromptEvalCount
                    /\ usage.CompletionTokens = cbs[lastOf].EvalCount - cbs[lastOf].PromptEvalCount
                    /\ usage.TotalTokens = usage.PromptTokens + usage.CompletionTokens

\* two invocations: the first with content h, eval count 2 and prompt eval
\* count 1, the second with no content and no eval count
C28_Witness ==
    /\ chatCall = "ollama"
    /\ chatPc = "returned"
    /\ chatRes.err = ""
    /\ chatIn.callbacks = <<[Content |-> "h", EvalCount |-> 2, PromptEvalCount |-> 1],
                            [Content |-> "", EvalCount |-> 0, PromptEvalCount |-> 1]>>
    /\ chatRes.resp[1].Content = ""
    /\ chatRes.resp[1].Usage = [PromptTokens |-> 1, CompletionTokens |-> 1, TotalTokens |-> 2]


\* C29: the stream of the local adapter has one answer event that is not
\* terminal for each invocation of the callback by the runtime, with the
\* content of the invocation, in the order of the invocations: the events
\* received and the one in flight are as many as the invocations, and their
\* contents are the contents the runtime produced.
C29_OllamaForwardsEachInvocation ==
    adapter = "ollama" =>
        /\ Len(received) + Len(Pending) = nInvocations
        /\ received \o Pending = produced


(***************************************************************************)
(* Properties of the notifications                                         *)
(***************************************************************************)
\* C30: when the stream of the remote adapter ends, the snapshot of the
\* final event has, for every index a tool_call notification was sent for,
\* an entry whose function name and id are the tool_name and tool_call_id
\* of the notification.
C30_NotificationIdentifiesFinalCall ==
    (adapter = "remote" /\ pc = "sendFinal") =>
        \A i \in Indices :
            notifs[i] > 0 =>
                \E j \in 1..Len(out[1].ToolCalls) :
                    /\ out[1].indices[j] = i
                    /\ out[1].ToolCalls[j].Name = announced[i].tool_name
                    /\ out[1].ToolCalls[j].ID = announced[i].tool_call_id


\* C31: when the stream of the remote adapter ends, every tool call of the
\* snapshot of the final event that has an id, a name and arguments has been
\* announced by a tool_call notification for its index.
C31_FinalCallsAnnounced ==
    (adapter = "remote" /\ pc = "sendFinal") =>
        \A j \in 1..Len(out[1].ToolCalls) :
            (/\ out[1].ToolCalls[j].ID # ""
             /\ out[1].ToolCalls[j].Name # ""
             /\ out[1].ToolCalls[j].Arguments # "") =>
                notifs[out[1].indices[j]] > 0


\* C32: on the channel of a ChatStream, remote or local, no event with done
\* = false is delivered after an event with done = true: once the consumer
\* has received a done event, the last event it has received is a done
\* event.
C32_NothingAfterDone ==
    doneCount > 0 => last.Done


\* C33: the usage of a Chat of the local adapter that succeeded has no
\* negative field.
C33_OllamaUsageNotNegative ==
    (chatCall = "ollama" /\ chatPc = "returned" /\ chatRes.err = "") =>
        /\ chatRes.resp[1].Usage.PromptTokens >= 0
        /\ chatRes.resp[1].Usage.CompletionTokens >= 0
        /\ chatRes.resp[1].Usage.TotalTokens >= 0

\* an emission that has read the registry
Emitted(e) == emission[e].kind # "none"

\* the handlers of emission m that are running
Running(m) == m.started \ m.finished

\* the handlers registered for the type of emission m when it read the
\* registry, in the order of their registration
RegisteredAtRead(m) ==
    /\ {m.handlers[k] : k \in 1..Len(m.handlers)} = m.liveAtRead
    /\ \A j, k \in 1..Len(m.handlers) : j < k => m.handlers[j] < m.handlers[k]
    /\ \A k \in 1..Len(m.handlers) : typeOf[m.handlers[k]] = m.type

\* C34: Emit in sync mode invokes the handlers registered for the type of
\* the event one after the other in the order of their registration; at the
\* first handler that fails it returns an error and invokes no later
\* handler; without a handler it returns nil and invokes nothing; it
\* returns nil once every handler has returned nil; a handler of another
\* type is never invoked.
C34_SyncEmitSequential ==
    \A e \in Emitters :
        LET m == emission[e]
            n == Cardinality(m.started)
        IN  Sequential(m) =>
                /\ RegisteredAtRead(m)
                /\ m.started = 1..n
                /\ Cardinality(Running(m)) <= 1
                /\ m.finished \subseteq m.started
                /\ m.failed # {} => /\ m.failed = {n}
                                    /\ Running(m) = {}
                /\ m.result = "error" <=> m.failed # {}
                /\ m.result = "nil" <=> /\ m.finished = 1..Len(m.handlers)
                                        /\ m.failed = {}
                /\ Len(m.handlers) = 0 => m.started = {}

\* a sync Emit with two handlers returned the error of the first one
C34_Witness ==
    \E e \in Emitters :
        /\ Sequential(emission[e])
        /\ Len(emission[e].handlers) = 2
        /\ emission[e].failed = {1}
        /\ emission[e].result = "error"

\* C35: EmitAndWait, in both modes, returns only when every handler it
\* read has returned, an error exactly when one of them failed; Emit in
\* async mode returns nil at once, whatever the handlers do.
C35_EmitAndWaitWaits ==
    \A e \in Emitters :
        LET m == emission[e]
        IN  /\ (m.kind = "EmitAndWait" /\ m.result # "none") =>
                    /\ m.finished = 1..Len(m.handlers)
                    /\ m.result = "error" <=> m.failed # {}
            /\ (m.kind = "Emit" /\ busMode = "async") => m.result = "nil"

\* EmitAndWait returned an error after both handlers ran, the first one
\* failing, and an async Emit returned nil with a failed handler
C35_Witness ==
    /\ \E e \in Emitters :
          /\ emission[e].kind = "EmitAndWait"
          /\ emission[e].finished = {1, 2}
          /\ emission[e].failed = {1}
          /\ emission[e].result = "error"
    /\ \E e \in Emitters :
          /\ emission[e].kind = "Emit"
          /\ busMode = "async"
          /\ emission[e].failed # {}

\* Off(t) empties the handlers of t and leaves every other type as it was
OffRemovesOneType ==
    \A t \in EventTypes :
        Off(t) => /\ busHandlers'[t] = <<>>
                  /\ \A u \in EventTypes \ {t} : busHandlers'[u] = busHandlers[u]

Handled == authIn # <<>>
TheRequest == authIn[1].req
TheAnswers == authIn[1].answers
TheOutcome == authOut[1]

\* the requests that need no credentials: the four entries of the list
NeedsNoCredentials ==
    \/ TheRequest.method = "OPTIONS"
    \/ <<TheRequest.path, TheRequest.method>> \in
           {<<"/health", "GET">>, <<"/api/v1/auth/register", "POST">>,
            <<"/api/v1/auth/login", "POST">>, <<"/api/v1/auth/refresh", "POST">>}

\* the request carries a bearer token and ValidateToken answered a user
BearerValidated ==
    /\ TheRequest.authorization = <<"Bearer ", "t">>
    /\ ~TheAnswers.validate.err
    /\ TheAnswers.validate.user # <<>>

TheUser == TheAnswers.validate.user[1]

\* the presented API key names tenant 1, GetTenantByID answered that
\* tenant and its stored key is the presented one
APIKeyValidated ==
    /\ TheRequest.apiKey = <<"1", "s">>
    /\ TheAnswers.tenant = "found"

\* the statuses of an aborted request
ErrorStatuses == {StatusBadRequest, StatusUnauthorized, StatusForbidden}

ParseableTenantHeaders == {<<"1">>, <<"2">>, <<"0", "1">>}

\* cross-tenant access is enabled in the configuration
CrossTenantEnabled == authIn[1].cfg = <<[Tenant |-> <<[EnableCrossTenantAccess |-> TRUE]>>]>>

\* a request that is decided by its bearer token
BearerRequest == Handled /\ ~NeedsNoCredentials /\ BearerValidated

\* C38: for a request authenticated by its bearer token, the tenant ID of
\* the context differs from the tenant of the user only if X-Tenant-ID is an
\* unsigned integer, cross-tenant access is enabled, the user has
\* CanAccessAllTenants and the target tenant was found; a parseable
\* X-Tenant-ID of a user without the permission is aborted with 403; a
\* header that does not parse is ignored: the tenant of the user is used.
C38_CrossTenantOnlyWithPermission ==
    BearerRequest =>
        /\ (TheOutcome.next /\ TheOutcome.ctx[1].tenantID # TheUser.TenantID) =>
              /\ TheRequest.tenantHeader \in ParseableTenantHeaders
              /\ CrossTenantEnabled
              /\ TheUser.CanAccessAllTenants
              /\ TheAnswers.target = "found"
        /\ TheOutcome.next => TheOutcome.ctx[1].user = <<TheUser>>
        /\ (/\ TheRequest.tenantHeader \in ParseableTenantHeaders
            /\ ~TheUser.CanAccessAllTenants) =>
              /\ TheOutcome.aborted
              /\ TheOutcome.response = <<StatusForbidden>>
        /\ TheRequest.tenantHeader \notin ParseableTenantHeaders =>
              /\ TheOutcome.response \notin {<<StatusForbidden>>, <<StatusBadRequest>>}
              /\ TheOutcome.next <=> TheAnswers.tenant # "error"
              /\ TheOutcome.next => TheOutcome.ctx[1].tenantID = TheUser.TenantID

\* a user of tenant 1 reached the next handler with tenant 2 in the context
C38_Witness ==
    /\ BearerRequest
    /\ TheOutcome.next
    /\ TheUser.TenantID = 1
    /\ TheOutcome.ctx[1].tenantID = 2

\* X-Tenant-ID names the tenant of the user
NamesOwnTenant ==
    TheRequest.tenantHeader \in
        (IF TheUser.TenantID = 1 THEN {<<"1">>, <<"0", "1">>} ELSE {<<"2">>})

\* C39: a request authenticated by its bearer token that names the tenant
\* of its user in X-Tenant-ID is never rejected with 403.
C39_OwnTenantNeverForbidden ==
    (BearerRequest /\ NamesOwnTenant) => TheOutcome.response # <<StatusForbidden>>

====
